---- MODULE Spec2Model ----
(***************************************************************************)
(* Session runtime of the facilitation service: SessionTimerState,         *)
(* BalanceTracker, InterventionEngine and the per-session scheduler loop.  *)
(* Time is the wall clock (datetime.utcnow) in whole seconds since the     *)
(* session runtime was started; speaking times are in milliseconds.        *)
(***************************************************************************)
EXTENDS Integers, Sequences, FiniteSets, TLC

VARIABLES
    now,        \* datetime.utcnow(), seconds
    engine,     \* the InterventionEngine instance
    ret,        \* the last call made on the instance and what it returned
    ghost,      \* history of the calls, kept for the properties
    timer,      \* the SessionTimerState instance
    tracker,    \* the BalanceTracker instance
    store       \* the other per-session entries of session_store and the scheduler task

vars == <<now, engine, ret, ghost, timer, tracker, store>>

\* Optional[...] = None
None == 0 - 1

(***************************************************************************)
(* Bounds of the model                                                     *)
(***************************************************************************)
\* the engine is driven at instants Step seconds apart, up to MaxNow
Step == 60
MaxNow == 300
\* interventions recorded in one engine's history
MaxHistory == 3

(***************************************************************************)
(* InterventionEngine: thresholds (seconds)                                *)
(***************************************************************************)
MIN_INTERVENTION_INTERVAL == 30
COOLDOWN_PERIOD == 120
SILENCE_THRESHOLD == 15
FIRST_MINUTES_QUIET == 180
GOAL_DRIFT_THRESHOLD == 120
TIME_WARNING_5_MIN == 300
TIME_WARNING_2_MIN == 120
TIME_WARNING_1_MIN == 60
\* tension scores are in hundredths: 0.7 is 70
TENSION_THRESHOLD == 70
TENSION_DURATION == 30

InterventionType ==
    {"balance", "silence", "goal_drift", "time_warning", "escalation", "icebreaker"}

NoIntervention == [type |-> "none"]

\* Intervention(...): created_at defaults to utcnow() at construction
Intervention(type, modality, message, target, priority, metadata, t) ==
    [type |-> type, modality |-> modality, message |-> message,
     target_participant |-> target, priority |-> priority,
     created_at |-> t, metadata |-> metadata]

\* InterventionEngine.__init__
NewEngine(start, duration_minutes, interrupt_authority, silence_detection) ==
    [session_start |-> start,
     session_duration |-> duration_minutes * 60,
     interrupt_authority |-> interrupt_authority,
     silence_detection |-> silence_detection,
     last_intervention |-> None,
     last_intervention_by_type |-> [ty \in InterventionType |-> None],
     intervention_count |-> 0,
     intervention_history |-> <<>>,
     is_mid_sentence |-> FALSE,
     emotional_disclosure |-> FALSE,
     repair_in_progress |-> FALSE,
     crisis_detected |-> FALSE,
     is_paused |-> FALSE,
     tension_start |-> None,
     goal_drift_start |-> None,
     silence_start |-> None,
     time_warnings_sent |-> <<>>]

\* InterventionEngine.set_blocker
set_blocker(e, blocker, active) ==
    CASE blocker = "mid_sentence" -> [e EXCEPT !.is_mid_sentence = active]
      [] blocker = "emotional_disclosure" -> [e EXCEPT !.emotional_disclosure = active]
      [] blocker = "repair_in_progress" -> [e EXCEPT !.repair_in_progress = active]
      [] blocker = "crisis_detected" -> [e EXCEPT !.crisis_detected = active]
      [] OTHER -> e

\* InterventionEngine.pause
engine_pause(e) == [e EXCEPT !.is_paused = TRUE]

\* InterventionEngine.resume
engine_resume(e) ==
    [e EXCEPT !.is_paused = FALSE, !.tension_start = None,
              !.goal_drift_start = None, !.silence_start = None]

\* InterventionEngine.get_session_elapsed
get_session_elapsed(e, t) == t - e.session_start

\* InterventionEngine.get_time_remaining
get_time_remaining(e, t) ==
    LET remaining == e.session_duration - get_session_elapsed(e, t)
    IN IF remaining > 0 THEN remaining ELSE 0

\* can_intervene without the global 30 second interval
can_intervene_no_interval(e, type, t) ==
    /\ ~e.is_paused
    /\ (type # "icebreaker" => ~(get_session_elapsed(e, t) < FIRST_MINUTES_QUIET))
    /\ (e.last_intervention_by_type[type] # None =>
            ~(t - e.last_intervention_by_type[type] < COOLDOWN_PERIOD))
    /\ ~(e.is_mid_sentence /\ e.interrupt_authority = FALSE)
    /\ ~e.emotional_disclosure
    /\ ~e.repair_in_progress
    /\ ~e.crisis_detected

\* can_intervene without the blocker conditions
can_intervene_no_blockers(e, type, t) ==
    /\ ~e.is_paused
    /\ (type # "icebreaker" => ~(get_session_elapsed(e, t) < FIRST_MINUTES_QUIET))
    /\ (e.last_intervention # None =>
            ~(t - e.last_intervention < MIN_INTERVENTION_INTERVAL))
    /\ (e.last_intervention_by_type[type] # None =>
            ~(t - e.last_intervention_by_type[type] < COOLDOWN_PERIOD))

\* InterventionEngine.can_intervene
can_intervene(e, type, t) ==
    /\ ~e.is_paused
    /\ (type # "icebreaker" => ~(get_session_elapsed(e, t) < FIRST_MINUTES_QUIET))
    /\ (e.last_intervention # None =>
            ~(t - e.last_intervention < MIN_INTERVENTION_INTERVAL))
    /\ (e.last_intervention_by_type[type] # None =>
            ~(t - e.last_intervention_by_type[type] < COOLDOWN_PERIOD))
    /\ ~(e.is_mid_sentence /\ e.interrupt_authority = FALSE)
    /\ ~e.emotional_disclosure
    /\ ~e.repair_in_progress
    /\ ~e.crisis_detected

\* InterventionEngine._create_intervention: the engine after it, and the record
_create_intervention(e, type, modality, message, target, priority, metadata, t) ==
    LET iv == Intervention(type, modality, message, target, priority, metadata, t)
    IN [e |-> [e EXCEPT !.last_intervention = t,
                        !.last_intervention_by_type[type] = t,
                        !.intervention_count = @ + 1,
                        !.intervention_history = Append(@, iv)],
        iv |-> iv]

Pass(e) == [e |-> e, iv |-> NoIntervention]

\* Optional[str] = None (participant ids are strings)
NoParticipant == "none"

\* balance_result = None
NoBalanceResult == [present |-> FALSE]

\* balance_result.get("quiet_speaker") if balance_result else None
QuietOf(balance_result) ==
    IF balance_result.present THEN balance_result.quiet_speaker ELSE NoParticipant

\* _check_escalation that never resets tension_start
_check_escalation_no_reset(e, tension_score, t) ==
    IF tension_score > TENSION_THRESHOLD
    THEN IF e.tension_start = None
         THEN Pass([e EXCEPT !.tension_start = t])
         ELSE IF t - e.tension_start >= TENSION_DURATION
                 /\ can_intervene(e, "escalation", t)
              THEN _create_intervention(e, "escalation", "voice", "ESCALATION_PAUSE",
                       NoParticipant, "critical", [tension_score |-> tension_score], t)
              ELSE Pass(e)
    ELSE Pass(e)

\* InterventionEngine._check_escalation
_check_escalation(e, tension_score, t) ==
    IF tension_score > TENSION_THRESHOLD
    THEN IF e.tension_start = None
         THEN Pass([e EXCEPT !.tension_start = t])
         ELSE IF t - e.tension_start >= TENSION_DURATION
                 /\ can_intervene(e, "escalation", t)
              THEN _create_intervention(e, "escalation", "voice", "ESCALATION_PAUSE",
                       NoParticipant, "critical", [tension_score |-> tension_score], t)
              ELSE Pass(e)
    ELSE Pass([e EXCEPT !.tension_start = None])

\* InterventionEngine._check_severe_balance
_check_severe_balance(e, balance_status, balance_result, t) ==
    IF balance_status # "severe_imbalance" THEN Pass(e)
    ELSE IF ~can_intervene(e, "balance", t) THEN Pass(e)
    ELSE _create_intervention(e, "balance", "voice", "BALANCE_VOICE",
             QuietOf(balance_result), "high",
             [balance_status |-> balance_status, balance_result |-> balance_result], t)

\* the (threshold, template) list of _check_time_warning
TimeWarnings ==
    << <<TIME_WARNING_5_MIN, "TIME_5_MIN_TOPIC">>,
       <<TIME_WARNING_2_MIN, "TIME_2_MIN">>,
       <<TIME_WARNING_1_MIN, "TIME_1_MIN">> >>

InSeq(x, s) == \E i \in 1..Len(s) : s[i] = x

\* indices of the thresholds that are due and not yet sent
DueWarnings(e, remaining) ==
    {i \in 1..Len(TimeWarnings) :
        remaining <= TimeWarnings[i][1] /\ ~InSeq(TimeWarnings[i][1], e.time_warnings_sent)}

Min(S) == CHOOSE x \in S : \A y \in S : x <= y

\* _check_time_warning that does not record the threshold as sent
_check_time_warning_no_mark(e, t) ==
    IF ~can_intervene(e, "time_warning", t) THEN Pass(e)
    ELSE LET remaining == get_time_remaining(e, t)
             due == DueWarnings(e, remaining)
         IN IF due = {} THEN Pass(e)
            ELSE LET i == Min(due)
                 IN _create_intervention(e,
                        "time_warning", "visual", TimeWarnings[i][2], NoParticipant, "medium",
                        [time_remaining_seconds |-> remaining], t)

\* _check_time_warning that records the due threshold before asking can_intervene
_check_time_warning_marks_blocked(e, t) ==
    LET remaining == get_time_remaining(e, t)
        due == DueWarnings(e, remaining)
    IN IF due = {} THEN Pass(e)
       ELSE LET i == Min(due)
                marked == [e EXCEPT !.time_warnings_sent = Append(@, TimeWarnings[i][1])]
            IN IF ~can_intervene(e, "time_warning", t) THEN Pass(marked)
               ELSE _create_intervention(marked,
                        "time_warning", "visual", TimeWarnings[i][2], NoParticipant, "medium",
                        [time_remaining_seconds |-> remaining], t)

\* InterventionEngine._check_time_warning
_check_time_warning(e, t) ==
    IF ~can_intervene(e, "time_warning", t) THEN Pass(e)
    ELSE LET remaining == get_time_remaining(e, t)
             due == DueWarnings(e, remaining)
         IN IF due = {} THEN Pass(e)
            ELSE LET i == Min(due)
                 IN _create_intervention(
                        [e EXCEPT !.time_warnings_sent = Append(@, TimeWarnings[i][1])],
                        "time_warning", "visual", TimeWarnings[i][2], NoParticipant, "medium",
                        [time_remaining_seconds |-> remaining], t)

\* InterventionEngine._check_silence
_check_silence(e, silence_duration, t) ==
    IF silence_duration < SILENCE_THRESHOLD
    THEN Pass([e EXCEPT !.silence_start = None])
    ELSE IF ~can_intervene(e, "silence", t) THEN Pass(e)
    ELSE _create_intervention(e, "silence", "visual", "SILENCE_VISUAL", NoParticipant, "low",
             [silence_seconds |-> silence_duration], t)

\* InterventionEngine._check_mild_balance
_check_mild_balance(e, balance_status, balance_result, t) ==
    IF balance_status # "mild_imbalance" THEN Pass(e)
    ELSE IF ~can_intervene(e, "balance", t) THEN Pass(e)
    ELSE _create_intervention(e, "balance", "visual", "BALANCE_VISUAL",
             QuietOf(balance_result), "medium",
             [balance_status |-> balance_status], t)

\* InterventionEngine._check_goal_drift
_check_goal_drift(e, is_on_goal, t) ==
    IF ~is_on_goal
    THEN IF e.goal_drift_start = None
         THEN Pass([e EXCEPT !.goal_drift_start = t])
         ELSE IF t - e.goal_drift_start >= GOAL_DRIFT_THRESHOLD
                 /\ can_intervene(e, "goal_drift", t)
              THEN _create_intervention(e, "goal_drift", "visual", "GOAL_DRIFT_VISUAL",
                       NoParticipant, "low", [session_goal |-> "goal"], t)
              ELSE Pass(e)
    ELSE Pass([e EXCEPT !.goal_drift_start = None])

\* `if self.silence_detection and silence_duration:` a timedelta is falsy when zero
SilenceChecked(e, silence_duration) ==
    e.silence_detection /\ silence_duration # None /\ silence_duration # 0

\* evaluate with the mild balance check moved ahead of the time warning
evaluate_mild_first(e, in, t) ==
    LET r1 == _check_escalation(e, in.tension_score, t) IN
    IF r1.iv # NoIntervention THEN r1 ELSE
    LET r2 == _check_severe_balance(r1.e, in.balance_status, in.balance_result, t) IN
    IF r2.iv # NoIntervention THEN r2 ELSE
    LET r5 == _check_mild_balance(r2.e, in.balance_status, in.balance_result, t) IN
    IF r5.iv # NoIntervention THEN r5 ELSE
    LET r3 == _check_time_warning(r5.e, t) IN
    IF r3.iv # NoIntervention THEN r3 ELSE
    LET r4 == IF SilenceChecked(r3.e, in.silence_duration)
              THEN _check_silence(r3.e, in.silence_duration, t) ELSE Pass(r3.e) IN
    IF r4.iv # NoIntervention THEN r4 ELSE
    _check_goal_drift(r4.e, in.is_on_goal, t)

\* InterventionEngine.evaluate
evaluate(e, in, t) ==
    LET r1 == _check_escalation(e, in.tension_score, t) IN
    IF r1.iv # NoIntervention THEN r1 ELSE
    LET r2 == _check_severe_balance(r1.e, in.balance_status, in.balance_result, t) IN
    IF r2.iv # NoIntervention THEN r2 ELSE
    LET r3 == _check_time_warning(r2.e, t) IN
    IF r3.iv # NoIntervention THEN r3 ELSE
    LET r4 == IF SilenceChecked(r3.e, in.silence_duration)
              THEN _check_silence(r3.e, in.silence_duration, t) ELSE Pass(r3.e) IN
    IF r4.iv # NoIntervention THEN r4 ELSE
    LET r5 == _check_mild_balance(r4.e, in.balance_status, in.balance_result, t) IN
    IF r5.iv # NoIntervention THEN r5 ELSE
    _check_goal_drift(r5.e, in.is_on_goal, t)

\* InterventionEngine.create_icebreaker
create_icebreaker(e, t) ==
    IF can_intervene(e, "icebreaker", t)
    THEN _create_intervention(e, "icebreaker", "voice", "ICEBREAKER_GOAL", NoParticipant,
             "medium", [session_goal |-> "goal"], t)
    ELSE Pass(e)

(***************************************************************************)
(* SessionTimerState                                                       *)
(***************************************************************************)
\* SessionTimerState(started_at=t)
NewTimer(t) == [started_at |-> t, paused_at |-> None, paused_seconds |-> 0]

\* elapsed_seconds that reads the clock even while paused
elapsed_seconds_running(tm, t) ==
    LET elapsed == (t - tm.started_at) - tm.paused_seconds
    IN IF elapsed > 0 THEN elapsed ELSE 0

\* SessionTimerState.elapsed_seconds
elapsed_seconds(tm, t) ==
    LET n == IF tm.paused_at # None THEN tm.paused_at ELSE t
        elapsed == (n - tm.started_at) - tm.paused_seconds
    IN IF elapsed > 0 THEN elapsed ELSE 0

\* SessionTimerState.pause
timer_pause(tm, t) ==
    IF tm.paused_at = None THEN [tm EXCEPT !.paused_at = t] ELSE tm

\* resume that forgets to count the paused interval
timer_resume_no_credit(tm, t) ==
    IF tm.paused_at # None THEN [tm EXCEPT !.paused_at = None] ELSE tm

\* SessionTimerState.resume
timer_resume(tm, t) ==
    IF tm.paused_at # None
    THEN [tm EXCEPT !.paused_seconds = @ + (t - tm.paused_at), !.paused_at = None]
    ELSE tm

(***************************************************************************)
(* BalanceTracker                                                          *)
(***************************************************************************)
MILD_IMBALANCE_THRESHOLD == 35
SEVERE_IMBALANCE_THRESHOLD == 40
\* seconds
MILD_IMBALANCE_DURATION == 180
SEVERE_IMBALANCE_DURATION == 300

\* SpeakerMetrics(), keyed by the speaker id; tracker.speakers keeps the
\* insertion order of the dict
SpeakerMetrics(id) ==
    [id |-> id, total_speaking_time_ms |-> 0, last_spoke_at |-> None,
     is_speaking |-> FALSE]

\* BalanceTracker.__init__
NewTracker(t) ==
    [speakers |-> <<>>, session_start |-> t, imbalance_start |-> None,
     severe_imbalance_start |-> None]

\* speaker_id in self.speakers
HasSpeaker(tr, id) == \E i \in 1..Len(tr.speakers) : tr.speakers[i].id = id

IndexOf(tr, id) == CHOOSE i \in 1..Len(tr.speakers) : tr.speakers[i].id = id

\* if speaker_id not in self.speakers: self.speakers[speaker_id] = SpeakerMetrics()
WithSpeaker(tr, id) ==
    IF HasSpeaker(tr, id) THEN tr
    ELSE [tr EXCEPT !.speakers = Append(@, SpeakerMetrics(id))]

\* update_speaker that does not record the start of a turn
update_speaker_no_stamp(tr, id, is_speaking, t) ==
    LET tr1 == WithSpeaker(tr, id)
        i == IndexOf(tr1, id)
        m == tr1.speakers[i]
    IN IF is_speaking /\ ~m.is_speaking
       THEN [tr1 EXCEPT !.speakers[i].is_speaking = TRUE]
       ELSE IF ~is_speaking /\ m.is_speaking
       THEN [tr1 EXCEPT !.speakers[i].total_speaking_time_ms =
                            IF m.last_spoke_at # None
                            THEN @ + (t - m.last_spoke_at) * 1000 ELSE @,
                        !.speakers[i].is_speaking = FALSE]
       ELSE tr1

\* BalanceTracker.update_speaker
update_speaker(tr, id, is_speaking, t) ==
    LET tr1 == WithSpeaker(tr, id)
        i == IndexOf(tr1, id)
        m == tr1.speakers[i]
    IN IF is_speaking /\ ~m.is_speaking
       THEN [tr1 EXCEPT !.speakers[i].is_speaking = TRUE,
                        !.speakers[i].last_spoke_at = t]
       ELSE IF ~is_speaking /\ m.is_speaking
       THEN [tr1 EXCEPT !.speakers[i].total_speaking_time_ms =
                            IF m.last_spoke_at # None
                            THEN @ + (t - m.last_spoke_at) * 1000 ELSE @,
                        !.speakers[i].is_speaking = FALSE]
       ELSE tr1

\* add_speaking_duration without the check of the duration
add_speaking_duration_unchecked(tr, id, duration_ms) ==
    LET tr1 == WithSpeaker(tr, id)
        i == IndexOf(tr1, id)
    IN [tr1 EXCEPT !.speakers[i].total_speaking_time_ms = @ + duration_ms]

\* BalanceTracker.add_speaking_duration
add_speaking_duration(tr, id, duration_ms) ==
    IF duration_ms <= 0 THEN tr
    ELSE LET tr1 == WithSpeaker(tr, id)
             i == IndexOf(tr1, id)
         IN [tr1 EXCEPT !.speakers[i].total_speaking_time_ms = @ + duration_ms]

\* the current speaking time of the i-th speaker, in milliseconds
TimeOf(m, t) ==
    m.total_speaking_time_ms
        + (IF m.is_speaking /\ m.last_spoke_at # None
           THEN (t - m.last_spoke_at) * 1000 ELSE 0)

\* BalanceTracker.get_current_speaking_time
get_current_speaking_time(tr, id, t) ==
    IF ~HasSpeaker(tr, id) THEN 0 ELSE TimeOf(tr.speakers[IndexOf(tr, id)], t)

RECURSIVE SumTimes(_, _, _)
\* sum(times) over the first n speakers
SumTimes(tr, n, t) ==
    IF n = 0 THEN 0 ELSE TimeOf(tr.speakers[n], t) + SumTimes(tr, n - 1, t)

\* int((t / total) * 100) in IEEE-754 double arithmetic: the quotient is the
\* double nearest to t/total, and for the exact ratios 0.29, 0.57 and 0.58 its
\* product with 100 rounds to just below the integer (28.999999999999996,
\* 56.99999999999999, 57.99999999999999), which int() truncates to one less.
\* Every other ratio of millisecond counts truncates to the exact floor.
IntPercent(x, total) ==
    LET q == (x * 100) \div total
    IN IF (x * 100) % total = 0 /\ q \in {29, 57, 58} THEN q - 1 ELSE q

Abs(x) == IF x < 0 THEN 0 - x ELSE x

\* BalanceResult(waiting_for_speakers=True)
WaitingResult ==
    [participant_a_id |-> NoParticipant, participant_a_percentage |-> 50,
     participant_b_id |-> NoParticipant, participant_b_percentage |-> 50,
     status |-> "balanced", waiting_for_speakers |-> TRUE]

\* the comparison with the severe threshold made strict
StatusOf_strict(diff) ==
    IF diff <= MILD_IMBALANCE_THRESHOLD THEN "balanced"
    ELSE IF diff < SEVERE_IMBALANCE_THRESHOLD THEN "mild_imbalance"
    ELSE "severe_imbalance"

\* the status of a difference of percentages
StatusOf(diff) ==
    IF diff <= MILD_IMBALANCE_THRESHOLD THEN "balanced"
    ELSE IF diff <= SEVERE_IMBALANCE_THRESHOLD THEN "mild_imbalance"
    ELSE "severe_imbalance"

\* BalanceTracker.get_balance
get_balance(tr, t) ==
    IF Len(tr.speakers) < 2 THEN WaitingResult
    ELSE LET total == SumTimes(tr, Len(tr.speakers), t)
             p0 == IF total = 0 THEN 50 ELSE IntPercent(TimeOf(tr.speakers[1], t), total)
             q1 == IF total = 0 THEN 50 ELSE IntPercent(TimeOf(tr.speakers[2], t), total)
             p1 == IF p0 + q1 # 100 THEN 100 - p0 ELSE q1
         IN [participant_a_id |-> tr.speakers[1].id, participant_a_percentage |-> p0,
             participant_b_id |-> tr.speakers[2].id, participant_b_percentage |-> p1,
             status |-> StatusOf(Abs(p0 - p1)), waiting_for_speakers |-> FALSE]

\* BalanceTracker.get_dominant_speaker
get_dominant_speaker(tr, t) ==
    LET balance == get_balance(tr, t)
    IN IF balance.waiting_for_speakers \/ balance.status = "balanced" THEN NoParticipant
       ELSE IF balance.participant_a_percentage > balance.participant_b_percentage
            THEN balance.participant_a_id
            ELSE balance.participant_b_id

\* BalanceTracker.get_quiet_speaker
get_quiet_speaker(tr, t) ==
    LET balance == get_balance(tr, t)
    IN IF balance.waiting_for_speakers \/ balance.status = "balanced" THEN NoParticipant
       ELSE IF balance.participant_a_percentage < balance.participant_b_percentage
            THEN balance.participant_a_id
            ELSE balance.participant_b_id

\* check_intervention_trigger that keeps the start timestamps when the
\* condition is found false
check_intervention_trigger_keeps(tr, t) ==
    LET balance == get_balance(tr, t)
        severe == balance.status = "severe_imbalance"
        imbalanced == balance.status \in {"mild_imbalance", "severe_imbalance"}
        tr1 == [tr EXCEPT !.severe_imbalance_start =
                   IF severe /\ @ = None THEN t ELSE @]
    IN IF balance.waiting_for_speakers THEN [tr |-> tr, trigger |-> "none"]
       ELSE IF severe /\ tr.severe_imbalance_start # None
                   /\ t - tr.severe_imbalance_start > SEVERE_IMBALANCE_DURATION
            THEN [tr |-> tr, trigger |-> "severe_balance"]
       ELSE IF imbalanced /\ tr1.imbalance_start # None
                   /\ t - tr1.imbalance_start > MILD_IMBALANCE_DURATION
            THEN [tr |-> tr1, trigger |-> "balance"]
       ELSE [tr |-> [tr1 EXCEPT !.imbalance_start =
                        IF imbalanced /\ @ = None THEN t ELSE @],
             trigger |-> "none"]

\* BalanceTracker.check_intervention_trigger: the tracker after it, and the
\* trigger returned ("none" for None)
check_intervention_trigger(tr, t) ==
    LET balance == get_balance(tr, t)
        severe == balance.status = "severe_imbalance"
        imbalanced == balance.status \in {"mild_imbalance", "severe_imbalance"}
        tr1 == [tr EXCEPT !.severe_imbalance_start =
                   IF severe THEN (IF @ = None THEN t ELSE @) ELSE None]
    IN IF balance.waiting_for_speakers THEN [tr |-> tr, trigger |-> "none"]
       ELSE IF severe /\ tr.severe_imbalance_start # None
                   /\ t - tr.severe_imbalance_start > SEVERE_IMBALANCE_DURATION
            THEN [tr |-> tr, trigger |-> "severe_balance"]
       ELSE IF imbalanced /\ tr1.imbalance_start # None
                   /\ t - tr1.imbalance_start > MILD_IMBALANCE_DURATION
            THEN [tr |-> tr1, trigger |-> "balance"]
       ELSE [tr |-> [tr1 EXCEPT !.imbalance_start =
                        IF imbalanced THEN (IF @ = None THEN t ELSE @) ELSE None],
             trigger |-> "none"]

\* BalanceTracker.reset_intervention_timers
reset_intervention_timers(tr) ==
    [tr EXCEPT !.imbalance_start = None, !.severe_imbalance_start = None]

(***************************************************************************)
(* session_store: the per-session registries of a running session          *)
(***************************************************************************)
\* session.participants, in list order (creator, then invitee)
Participants == <<"p1", "p2">>

\* the participant ids SessionService draws, in the order it draws them
ParticipantIds == <<"p1", "p2", "p3">>

\* speaker labels of the diarization
Labels == {"S0", "S1", "S2"}

\* the id of the session
SessionId == "s1"

\* the invite token of the session
InviteToken == "token"

\* Participant(id, name, role, consented=True); the ids are fresh random
\* tokens, here the position in the list
Participant(n, name, role) ==
    [id |-> ParticipantIds[n], name |-> name, role |-> role, consented |-> TRUE]

\* SessionService.create_session: the session it stores
NewSession ==
    [id |-> SessionId, status |-> "pending_consent",
     participants |-> << Participant(1, "Al", "creator") >>,
     invite_token |-> InviteToken]

\* the session of a running meeting: the invitee consented and the session
\* was started
StartedSession ==
    [NewSession EXCEPT !.status = "in_progress",
                       !.participants = Append(@, Participant(2, "Bo", "invitee"))]

\* the registries that hold an entry per session once it runs
Registries ==
    {"SESSION_STORE", "SESSION_TIMER_STATE", "SESSION_TIMER_TASKS",
     "SESSION_INTERVENTION_ENGINES", "SESSION_BALANCE_TRACKERS",
     "SESSION_SPEAKER_MAPS", "SESSION_LAST_SPEECH_AT", "SESSION_IS_SPEAKING"}

\* The entries made by create_session, start_session_timer,
\* start_intervention_engine and start_balance_tracker:
\* entries is the set of registries that hold an entry for the session (the
\* variables timer, engine and tracker and the fields below are the values
\* of these entries and mean nothing once the entry is gone),
\* task is the position of the _run_session_timer task ("tick": at the head
\* of the loop, "sleep": in asyncio.sleep(1), "done": returned, "cancelled":
\* cancelled, "failed": ended by an exception), sent is the list of events
\* its last iteration broadcast, connections is SESSION_EVENTS of the
\* session, closed is the set of websockets whose send_json raises, and
\* attempts is the list of send_json calls of the last iteration.
\* The specifications that follow the scheduler from one suspension point to
\* the next keep the tasks themselves instead of task (which they set to
\* "split"): tasks is the list of the _run_session_timer tasks created for the
\* session, oldest first, timer_task is the index of the one held by
\* SESSION_TIMER_TASKS (0: no entry), and sends is the list of the send_json
\* calls made in the current second.
NewStore(t, duration_minutes) ==
    [session |-> StartedSession,
     task |-> "tick",
     duration_minutes |-> duration_minutes,
     speaker_map |-> [l \in Labels |-> NoParticipant],
     last_speech_at |-> t,
     is_speaking |-> FALSE,
     sent |-> <<>>,
     entries |-> Registries,
     connections |-> <<>>,
     closed |-> {},
     attempts |-> <<>>,
     tasks |-> <<>>,
     timer_task |-> 0,
     sends |-> <<>>]

\* _resolve_speaker_id that looks for a free participant even for a label
\* that is mapped already
_resolve_speaker_id_remap(st, label) ==
    LET assigned == {st.speaker_map[l] : l \in Labels} \ {NoParticipant}
        free == {i \in 1..Len(Participants) : Participants[i] \notin assigned}
        id == IF free # {} THEN Participants[Min(free)] ELSE Participants[1]
    IN [st |-> [st EXCEPT !.speaker_map[label] = id], id |-> id]

\* _resolve_speaker_id that falls back to the last participant
_resolve_speaker_id_last(st, label) ==
    IF st.speaker_map[label] # NoParticipant
    THEN [st |-> st, id |-> st.speaker_map[label]]
    ELSE LET assigned == {st.speaker_map[l] : l \in Labels} \ {NoParticipant}
             free == {i \in 1..Len(Participants) : Participants[i] \notin assigned}
             id == IF free # {} THEN Participants[Min(free)]
                   ELSE Participants[Len(Participants)]
         IN [st |-> [st EXCEPT !.speaker_map[label] = id], id |-> id]

\* _resolve_speaker_id: the store after it, and the participant id
_resolve_speaker_id(st, label) ==
    IF st.speaker_map[label] # NoParticipant
    THEN [st |-> st, id |-> st.speaker_map[label]]
    ELSE LET assigned == {st.speaker_map[l] : l \in Labels} \ {NoParticipant}
             free == {i \in 1..Len(Participants) : Participants[i] \notin assigned}
             id == IF free # {} THEN Participants[Min(free)] ELSE Participants[1]
         IN [st |-> [st EXCEPT !.speaker_map[label] = id], id |-> id]

\* record_speaker_activity: the store and the tracker after it
record_speaker_activity(st, tr, label, is_speaking, t) ==
    LET r == _resolve_speaker_id(st, label)
        tr1 == update_speaker(tr, r.id, is_speaking, t)
    IN [st |-> [r.st EXCEPT
                   !.last_speech_at = IF is_speaking THEN t ELSE @,
                   !.is_speaking = \E i \in 1..Len(tr1.speakers) :
                                       tr1.speakers[i].is_speaking],
        tr |-> tr1]

\* record_speaker_durations over the first n items of durations_ms, a
\* sequence of (label, duration) pairs in the order of the dict
RECURSIVE AddDurationsOf(_, _, _, _)
AddDurationsOf(st, tr, durations_ms, n) ==
    IF n = 0 THEN [st |-> st, tr |-> tr]
    ELSE LET prev == AddDurationsOf(st, tr, durations_ms, n - 1)
             r == _resolve_speaker_id(prev.st, durations_ms[n][1])
         IN [st |-> r.st,
             tr |-> add_speaking_duration(prev.tr, r.id, durations_ms[n][2])]

\* record_speaker_durations
record_speaker_durations(st, tr, durations_ms, t) ==
    LET r == AddDurationsOf(st, tr, durations_ms, Len(durations_ms))
    IN [st |-> [r.st EXCEPT !.last_speech_at = IF Len(durations_ms) > 0 THEN t ELSE @],
        tr |-> r.tr]

\* pause_session_timer: the timer and the engine after it
pause_session_timer(st, tm, e, t) ==
    [tm |-> IF "SESSION_TIMER_STATE" \in st.entries THEN timer_pause(tm, t) ELSE tm,
     e |-> IF "SESSION_INTERVENTION_ENGINES" \in st.entries THEN engine_pause(e) ELSE e]

\* resume_session_timer
resume_session_timer(st, tm, e, t) ==
    [tm |-> IF "SESSION_TIMER_STATE" \in st.entries THEN timer_resume(tm, t) ELSE tm,
     e |-> IF "SESSION_INTERVENTION_ENGINES" \in st.entries THEN engine_resume(e) ELSE e]

\* _cancel_session_timer
_cancel_session_timer(st) ==
    [st EXCEPT !.entries = @ \ {"SESSION_TIMER_TASKS"},
               !.task = IF "SESSION_TIMER_TASKS" \in st.entries
                           /\ @ \notin {"done", "failed"}
                        THEN "cancelled" ELSE @]

\* stop_session_timer
stop_session_timer(st) ==
    [_cancel_session_timer(st) EXCEPT !.entries = @ \ {"SESSION_TIMER_STATE"}]

\* stop_intervention_engine
stop_intervention_engine(st) ==
    [st EXCEPT !.entries = @ \ {"SESSION_INTERVENTION_ENGINES"}]

\* stop_balance_tracker
stop_balance_tracker(st) ==
    [st EXCEPT !.entries = @ \ {"SESSION_BALANCE_TRACKERS", "SESSION_SPEAKER_MAPS",
                                "SESSION_LAST_SPEECH_AT", "SESSION_IS_SPEAKING"}]

\* delete_session: the store after it and the value it returns
delete_session(st) ==
    IF "SESSION_STORE" \in st.entries
    THEN [st |-> [stop_balance_tracker(stop_session_timer(
                      [st EXCEPT !.entries = @ \ {"SESSION_STORE"}]))
                  EXCEPT !.connections = <<>>],
          result |-> TRUE]
    ELSE [st |-> st, result |-> FALSE]

\* the websockets that connect to /events of the session
Sockets == {"ws1", "ws2"}

\* register_event_connection
register_event_connection(st, ws) == [st EXCEPT !.connections = Append(@, ws)]

\* unregister_event_connection: list.remove drops the first occurrence
unregister_event_connection(st, ws) ==
    LET at == {i \in 1..Len(st.connections) : st.connections[i] = ws}
    IN IF at = {} THEN st
       ELSE [st EXCEPT !.connections =
                SubSeq(@, 1, Min(at) - 1) \o SubSeq(@, Min(at) + 1, Len(@))]

\* broadcast_session_event without the try/except around send_json: the
\* first failing send ends the loop and raises
broadcast_session_event_unguarded(st, event_type) ==
    LET fails == {i \in 1..Len(st.connections) : st.connections[i] \in st.closed}
        n == IF fails = {} THEN Len(st.connections) ELSE Min(fails)
    IN [attempts |-> [i \in 1..n |-> [ws |-> st.connections[i], type |-> event_type,
                                       ok |-> st.connections[i] \notin st.closed]],
        raised |-> fails # {}]

\* broadcast_session_event: the send_json calls it makes, in order, and
\* whether it raises
broadcast_session_event(st, event_type) ==
    [attempts |-> [i \in 1..Len(st.connections) |->
                      [ws |-> st.connections[i], type |-> event_type,
                       ok |-> st.connections[i] \notin st.closed]],
     raised |-> FALSE]

\* the broadcasts of one iteration of _run_session_timer: an exception out
\* of one of them ends the iteration
RECURSIVE Broadcasts(_, _)
Broadcasts(st, events) ==
    IF events = <<>> THEN [attempts |-> <<>>, raised |-> FALSE]
    ELSE LET b == broadcast_session_event(st, Head(events).type)
         IN IF b.raised THEN b
            ELSE LET rest == Broadcasts(st, Tail(events))
                 IN [attempts |-> b.attempts \o rest.attempts, raised |-> rest.raised]

(***************************************************************************)
(* The engine under any sequence of calls                                  *)
(***************************************************************************)
BalanceStatuses == {"balanced", "mild_imbalance", "severe_imbalance"}
Blockers == {"mid_sentence", "emotional_disclosure", "repair_in_progress",
             "crisis_detected"}

\* planned session durations (minutes) the engine is constructed with
Durations == {5}

\* facilitator_config: the defaults of __init__, and both flags flipped
Configs == {[interrupt_authority |-> TRUE, silence_detection |-> FALSE],
            [interrupt_authority |-> FALSE, silence_detection |-> TRUE]}

\* the arguments of an evaluate call
EvalInputs ==
    [balance_status : BalanceStatuses,
     balance_result : {NoBalanceResult},
     silence_duration : {None, SILENCE_THRESHOLD},
     tension_score : {TENSION_THRESHOLD, TENSION_THRESHOLD + 1},
     is_on_goal : BOOLEAN]

\* The candidates of an evaluate call, in the fixed order, as (type, modality)
CandidateKinds ==
    << <<"escalation", "voice">>, <<"balance", "voice">>,
       <<"time_warning", "visual">>, <<"silence", "visual">>,
       <<"balance", "visual">>, <<"goal_drift", "visual">> >>

\* For each candidate, whether it is due in the state before the call: its
\* trigger condition holds and can_intervene passes for its type.
DueFlags(e, in, t) ==
    << /\ in.tension_score > TENSION_THRESHOLD
       /\ e.tension_start # None
       /\ t - e.tension_start >= TENSION_DURATION
       /\ can_intervene(e, "escalation", t),
       /\ in.balance_status = "severe_imbalance"
       /\ can_intervene(e, "balance", t),
       /\ \E th \in {TIME_WARNING_5_MIN, TIME_WARNING_2_MIN, TIME_WARNING_1_MIN} :
             /\ get_time_remaining(e, t) <= th
             /\ ~InSeq(th, e.time_warnings_sent)
       /\ can_intervene(e, "time_warning", t),
       /\ e.silence_detection
       /\ in.silence_duration # None
       /\ in.silence_duration >= SILENCE_THRESHOLD
       /\ can_intervene(e, "silence", t),
       /\ in.balance_status = "mild_imbalance"
       /\ can_intervene(e, "balance", t),
       /\ ~in.is_on_goal
       /\ e.goal_drift_start # None
       /\ t - e.goal_drift_start >= GOAL_DRIFT_THRESHOLD
       /\ can_intervene(e, "goal_drift", t) >>

NoKind == <<"none", "none">>

NoneDue == <<FALSE, FALSE, FALSE, FALSE, FALSE, FALSE>>

KindOf(iv) == IF iv = NoIntervention THEN NoKind ELSE <<iv.type, iv.modality>>

\* ret: the call, what it returned, and for evaluate the candidates that were due
Ret(op, iv, due) == [op |-> op, iv |-> iv, due |-> due, raised |-> "none"]

\* ghost.high_since: the instant of the first evaluate call of the current
\* unbroken run of evaluate calls with tension_score > 0.7 (None: no such run)
\* ghost.recorded: the speaker ids passed to update_speaker, or to
\* add_speaking_duration with a positive duration
\* ghost.resumed_at: the instant of the last resume_session_timer call that
\* ended a pause (None: no pause has ended)
\* ghost.severe_since, ghost.imbalance_since: the instant of the first
\* check_intervention_trigger call of the current unbroken run of calls at
\* which get_balance was severe_imbalance, resp. mild_imbalance or worse
\* (None: the last call found it otherwise, or there was none)
\* ghost.off_since: the instant of the first evaluate call of the current
\* unbroken run of evaluate calls with is_on_goal false (None: no such run)
\* ghost.turn_ended_at: the instant of the last record_speaker_activity call
\* that ended a participant's turn (None: no turn has ended)
\* ghost.broadcast: the broadcast_session_event call that began last: the
\* task that made it, the event type, the listeners registered from its
\* beginning until now (stayed) and the listeners send_json was called on
\* (got); ghost.finished: the same for the call that returned last
NoBroadcast == [task |-> 0, type |-> "none", stayed |-> {}, got |-> <<>>]

NoGhost ==
    [high_since |-> None, recorded |-> {}, resumed_at |-> None,
     severe_since |-> None, imbalance_since |-> None, off_since |-> None,
     turn_ended_at |-> None, broadcast |-> NoBroadcast, finished |-> NoBroadcast]


AnyBlocker(e) ==
    e.is_mid_sentence \/ e.emotional_disclosure \/ e.repair_in_progress
        \/ e.crisis_detected

InitEngine ==
    /\ now = 0
    /\ \E d \in Durations, c \in Configs :
           engine = NewEngine(0, d, c.interrupt_authority, c.silence_detection)
    /\ ret = Ret("init", NoIntervention, NoneDue)
    /\ ghost = NoGhost
    /\ timer = NewTimer(0)
    /\ tracker = NewTracker(0)
    /\ store = NewStore(0, 30)

\* time passes between two calls
EngAdvance ==
    /\ now + Step <= MaxNow
    /\ now' = now + Step
    /\ UNCHANGED <<engine, ret, ghost, timer, tracker, store>>

EngEvaluate ==
    /\ Len(engine.intervention_history) < MaxHistory
    /\ \E in \in EvalInputs :
           LET r == evaluate(engine, in, now)
           IN /\ engine' = r.e
              /\ ret' = Ret("evaluate", r.iv, DueFlags(engine, in, now))
              /\ ghost' = [ghost EXCEPT !.high_since =
                              IF in.tension_score > TENSION_THRESHOLD
                              THEN (IF @ = None THEN now ELSE @)
                              ELSE None]
    /\ UNCHANGED <<now, timer, tracker, store>>

EngCreateIcebreaker ==
    /\ Len(engine.intervention_history) < MaxHistory
    /\ LET r == create_icebreaker(engine, now)
       IN /\ engine' = r.e
          /\ ret' = Ret("create_icebreaker", r.iv, NoneDue)
    /\ UNCHANGED <<now, ghost, timer, tracker, store>>

EngSetBlocker ==
    /\ \E b \in Blockers, active \in BOOLEAN :
           /\ active => ~AnyBlocker(engine)
           /\ engine' = set_blocker(engine, b, active)
    /\ ret' = Ret("other", NoIntervention, NoneDue)
    /\ UNCHANGED <<now, ghost, timer, tracker, store>>

NextEngine ==
    \/ EngAdvance
    \/ EngEvaluate
    \/ EngCreateIcebreaker
    \/ EngSetBlocker

SpecEngine == InitEngine /\ [][NextEngine]_vars

h == engine.intervention_history

(***************************************************************************)
(* C1: any two interventions recorded in the history of one engine were    *)
(* created at least 30 seconds apart, and any two of the same type at      *)
(* least 120 seconds apart.                                                *)
(***************************************************************************)
C1_Cooldowns ==
    \A i, j \in 1..Len(h) :
        i < j =>
            /\ h[j].created_at - h[i].created_at >= MIN_INTERVENTION_INTERVAL
            /\ (h[i].type = h[j].type =>
                    h[j].created_at - h[i].created_at >= COOLDOWN_PERIOD)

\* two interventions of one type and one of another type are in the history
C1_Witness ==
    /\ \E i, j \in 1..Len(h) : i < j /\ h[i].type = h[j].type
    /\ \E i, j \in 1..Len(h) : i < j /\ h[i].type # h[j].type

(***************************************************************************)
(* C3: for each of the thresholds of 5, 2 and 1 minutes remaining, at most *)
(* one time_warning intervention is ever created by one engine.            *)
(***************************************************************************)
C3_WarningOnce ==
    \A k \in 1..Len(TimeWarnings) :
        Cardinality({i \in 1..Len(h) :
            h[i].type = "time_warning" /\ h[i].message = TimeWarnings[k][2]}) <= 1

\* the 5 minute warning was sent, and a later evaluate call that still saw
\* remaining <= 5 minutes sent the 2 minute warning instead
C3_Witness ==
    \E i, j \in 1..Len(h) :
        /\ i < j
        /\ h[i].message = "TIME_5_MIN_TOPIC"
        /\ h[j].message = "TIME_2_MIN"
        /\ h[j].metadata.time_remaining_seconds <= TIME_WARNING_5_MIN

(***************************************************************************)
(* C4: an evaluate call returns at most one intervention, the first        *)
(* candidate in the order escalation, severe balance, time warning,        *)
(* silence, mild balance, goal drift that is due (its trigger condition    *)
(* holds and can_intervene passes), and nothing when none is due.          *)
(***************************************************************************)
FirstDue(due) ==
    LET S == {i \in 1..6 : due[i]}
    IN IF S = {} THEN NoKind ELSE CandidateKinds[Min(S)]

C4_Priority ==
    [][(ret'.op = "evaluate" /\ now' = now) =>
          /\ KindOf(ret'.iv) = FirstDue(ret'.due)
          /\ IF ret'.iv = NoIntervention
             THEN engine'.intervention_history = h
             ELSE engine'.intervention_history = Append(h, ret'.iv)]_vars

\* an evaluate call returned one candidate while a lower one was due as well
C4_Witness ==
    /\ ret.op = "evaluate"
    /\ ret.iv # NoIntervention
    /\ Cardinality({i \in 1..6 : ret.due[i]}) >= 3

(***************************************************************************)
(* C5: while emotional_disclosure, repair_in_progress or crisis_detected   *)
(* is set, or mid_sentence is set without interrupt authority, neither     *)
(* evaluate nor create_icebreaker produces an intervention of any type;    *)
(* the flags block nothing else: with them cleared (or with mid_sentence   *)
(* alone under interrupt authority) can_intervene is decided by the pause  *)
(* flag, the quiet period and the cooldowns.                               *)
(***************************************************************************)
Blocked(e) ==
    \/ e.emotional_disclosure
    \/ e.repair_in_progress
    \/ e.crisis_detected
    \/ (e.is_mid_sentence /\ ~e.interrupt_authority)

TimingAllows(e, type, t) ==
    /\ ~e.is_paused
    /\ (type # "icebreaker" => get_session_elapsed(e, t) >= FIRST_MINUTES_QUIET)
    /\ (e.last_intervention # None =>
            t - e.last_intervention >= MIN_INTERVENTION_INTERVAL)
    /\ (e.last_intervention_by_type[type] # None =>
            t - e.last_intervention_by_type[type] >= COOLDOWN_PERIOD)

C5_Blockers ==
    /\ (ret.iv # NoIntervention => ~Blocked(engine))
    /\ \A ty \in InterventionType :
          can_intervene(engine, ty, now) = (~Blocked(engine) /\ TimingAllows(engine, ty, now))

\* an evaluate call returned nothing while a blocker was set, although the
\* first time warning was due by the clock and the timing checks let it pass
C5_Witness ==
    /\ ret.op = "evaluate"
    /\ ret.iv = NoIntervention
    /\ Blocked(engine)
    /\ TimingAllows(engine, "time_warning", now)
    /\ engine.time_warnings_sent = <<>>
    /\ get_time_remaining(engine, now) <= TIME_WARNING_5_MIN

(***************************************************************************)
(* C10: evaluate returns an escalation only if every evaluate call over at *)
(* least the preceding 30 seconds had tension > 0.7; an evaluate call with *)
(* tension <= 0.7 clears the start of the sustained duration.              *)
(***************************************************************************)
C10_Escalation ==
    /\ (ret.op = "evaluate" /\ ret.iv.type = "escalation") =>
          /\ ghost.high_since # None
          /\ ret.iv.created_at - ghost.high_since >= TENSION_DURATION
    /\ (ret.op = "evaluate" /\ ghost.high_since = None) =>
          engine.tension_start = None
    /\ engine.tension_start # None =>
          (ghost.high_since # None /\ ghost.high_since <= engine.tension_start)

\* escalation fired in a run of high tension that began after the session start
C10_Witness ==
    /\ ret.op = "evaluate"
    /\ ret.iv.type = "escalation"
    /\ ghost.high_since > 0

(***************************************************************************)
(* The timer under any sequence of pause and resume calls                  *)
(***************************************************************************)
MaxTimerNow == 12

InitTimer ==
    /\ now = 0
    /\ engine = NewEngine(0, 30, TRUE, FALSE)
    /\ ret = Ret("init", NoIntervention, NoneDue)
    /\ ghost = NoGhost
    /\ timer = NewTimer(0)
    /\ tracker = NewTracker(0)
    /\ store = NewStore(0, 30)

TmAdvance ==
    /\ now + 1 <= MaxTimerNow
    /\ now' = now + 1
    /\ UNCHANGED <<engine, ret, ghost, timer, tracker, store>>

TmPause ==
    /\ timer' = timer_pause(timer, now)
    /\ UNCHANGED <<now, engine, ret, ghost, tracker, store>>

TmResume ==
    /\ timer' = timer_resume(timer, now)
    /\ UNCHANGED <<now, engine, ret, ghost, tracker, store>>

NextTimer == TmAdvance \/ TmPause \/ TmResume

SpecTimer == InitTimer /\ [][NextTimer]_vars

(***************************************************************************)
(* C6: elapsed is never negative; while the timer is paused elapsed does   *)
(* not change, whatever the delay, up to and including the resume, so      *)
(* elapsed right after the resume is elapsed at the pause; a pause while   *)
(* paused does not move paused_at; a resume while not paused changes       *)
(* nothing.                                                                *)
(***************************************************************************)
C6_PauseFreezes ==
    /\ [](elapsed_seconds(timer, now) >= 0)
    /\ [][/\ timer.paused_at # None =>
                elapsed_seconds(timer', now') = elapsed_seconds(timer, now)
          /\ (timer.paused_at # None /\ timer'.paused_at # None) =>
                timer'.paused_at = timer.paused_at
          /\ (timer.paused_at = None /\ timer'.paused_at = None /\ now' = now) =>
                timer' = timer]_vars

\* the timer was paused, resumed after a delay, and has run on since
C6_Witness ==
    /\ timer.paused_at = None
    /\ timer.paused_seconds >= 2
    /\ elapsed_seconds(timer, now) >= 2
    /\ now = timer.paused_seconds + elapsed_seconds(timer, now)

(***************************************************************************)
(* The tracker under any sequence of update_speaker and                    *)
(* add_speaking_duration calls                                             *)
(***************************************************************************)
\* the participant ids of a session (creator and invitee): the only ids
\* _resolve_speaker_id hands to the tracker
Pids == {"p1", "p2"}

\* durations (milliseconds) passed to add_speaking_duration
AddDurations == {0 - 5, 0, 290, 300, 320, 380, 410}

\* the tracker is driven at whole seconds up to MaxBalNow, and durations are
\* added while the recorded total stays within MaxTotalMs
MaxBalNow == 1
MaxTotalMs == 1000

RecordedTotal(tr) == SumTimes([tr EXCEPT !.speakers =
    [i \in 1..Len(tr.speakers) |-> [tr.speakers[i] EXCEPT !.is_speaking = FALSE]]],
    Len(tr.speakers), 0)

InitBalance ==
    /\ now = 0
    /\ engine = NewEngine(0, 30, TRUE, FALSE)
    /\ ret = Ret("init", NoIntervention, NoneDue)
    /\ ghost = NoGhost
    /\ timer = NewTimer(0)
    /\ tracker = NewTracker(0)
    /\ store = NewStore(0, 30)

BalAdvance ==
    /\ now + 1 <= MaxBalNow
    /\ now' = now + 1
    /\ UNCHANGED <<engine, ret, ghost, timer, tracker, store>>

BalUpdateSpeaker ==
    /\ \E id \in Pids, is_speaking \in BOOLEAN :
          /\ tracker' = update_speaker(tracker, id, is_speaking, now)
          /\ ghost' = [ghost EXCEPT !.recorded = @ \cup {id}]
    /\ UNCHANGED <<now, engine, ret, timer, store>>

BalAddDuration ==
    /\ \E id \in Pids, d \in AddDurations :
          /\ RecordedTotal(tracker) + d <= MaxTotalMs
          /\ tracker' = add_speaking_duration(tracker, id, d)
          /\ ghost' = [ghost EXCEPT !.recorded = IF d > 0 THEN @ \cup {id} ELSE @]
    /\ UNCHANGED <<now, engine, ret, timer, store>>

NextBalance == BalAdvance \/ BalUpdateSpeaker \/ BalAddDuration

SpecBalance == InitBalance /\ [][NextBalance]_vars

Balance == get_balance(tracker, now)
Total == SumTimes(tracker, Len(tracker.speakers), now)

(***************************************************************************)
(* C7: with at least two speakers recorded, get_balance returns            *)
(* percentageA + percentageB = 100 with percentageA the floor of           *)
(* timeA / total * 100 and percentageB = 100 - percentageA, and 50/50      *)
(* balanced when the total time is 0.                                      *)
(***************************************************************************)
C7_Percentages ==
    ~Balance.waiting_for_speakers =>
        /\ Balance.participant_a_percentage + Balance.participant_b_percentage = 100
        /\ Balance.participant_b_percentage = 100 - Balance.participant_a_percentage
        /\ IF Total = 0
           THEN /\ Balance.participant_a_percentage = 50
                /\ Balance.status = "balanced"
           ELSE Balance.participant_a_percentage =
                    (TimeOf(tracker.speakers[1], now) * 100) \div Total

(***************************************************************************)
(* C8: get_balance classifies by diff = |percentageA - percentageB|:       *)
(* diff <= 35 is balanced, 36..40 is mild_imbalance, diff > 40 is          *)
(* severe_imbalance.                                                       *)
(***************************************************************************)
Diff == Abs(Balance.participant_a_percentage - Balance.participant_b_percentage)

C8_Classification ==
    ~Balance.waiting_for_speakers =>
        /\ Diff <= 35 => Balance.status = "balanced"
        /\ (36 <= Diff /\ Diff <= 40) => Balance.status = "mild_imbalance"
        /\ Diff > 40 => Balance.status = "severe_imbalance"

\* a 70/30 split: diff = 40, the upper end of mild_imbalance
C8_Witness ==
    /\ ~Balance.waiting_for_speakers
    /\ Diff = 40
    /\ Balance.status = "mild_imbalance"

(***************************************************************************)
(* C9: get_balance returns the waiting sentinel exactly while fewer than   *)
(* two distinct speaker ids have been recorded in the tracker.             *)
(***************************************************************************)
C9_Waiting ==
    /\ {tracker.speakers[i].id : i \in 1..Len(tracker.speakers)} = ghost.recorded
    /\ Balance.waiting_for_speakers = (Cardinality(ghost.recorded) < 2)

\* two ids are recorded and neither has any speaking time yet: the snapshot
\* is no longer the sentinel
C9_Witness ==
    /\ Cardinality(ghost.recorded) = 2
    /\ Total = 0
    /\ ~Balance.waiting_for_speakers

(***************************************************************************)
(* The scheduler of a running session: the _run_session_timer task, the    *)
(* pause and resume of the session timer, and the speech activity recorded *)
(* by the transcription side                                               *)
(***************************************************************************)
\* the scheduler is followed up to MaxSchedNow seconds
MaxSchedNow == 245
\* the session is paused within its first MaxPauseNow seconds
MaxPauseNow == 1
\* speech activity is recorded within the first MaxSpeechNow seconds
MaxSpeechNow == 0
\* while the timer is paused an iteration of the loop changes nothing but the
\* clock: PausedStep of them are taken in one step
PausedStep == 60

\* planned durations (minutes) of the sessions
SchedDurations == {4}

\* the labels heard in the sessions of this scheduler
HeardLabels == {"S0", "S1"}

\* durations_ms of a record_speaker_durations call
DurationMaps == { << <<"S0", 800>>, <<"S1", 200>> >>, << <<"S0", 500>>, <<"S1", 500>> >> }

Max(a, b) == IF a > b THEN a ELSE b

\* remaining without the clamp at 0
Remaining_unclamped(st, tm, t) ==
    Max(st.duration_minutes, 0) * 60 - elapsed_seconds(tm, t)

\* _run_session_timer: remaining = max(duration_seconds - int(elapsed), 0)
Remaining(st, tm, t) ==
    Max(Max(st.duration_minutes, 0) * 60 - elapsed_seconds(tm, t), 0)

\* _run_session_timer: percent_complete
PercentComplete(st, tm, t) ==
    LET duration_seconds == Max(st.duration_minutes, 0) * 60
        percent == IntPercent(elapsed_seconds(tm, t), duration_seconds)
    IN IF duration_seconds > 0 THEN (IF percent < 100 THEN percent ELSE 100) ELSE 0

\* _run_session_timer: balance_result, the snapshot of get_balance_snapshot
\* with the quiet and the dominant speaker, or None while waiting for speakers
BalanceResultOf(tr, t) ==
    LET snapshot == get_balance(tr, t)
    IN IF snapshot.waiting_for_speakers THEN NoBalanceResult
       ELSE [present |-> TRUE, status |-> snapshot.status,
             participant_a_percentage |-> snapshot.participant_a_percentage,
             participant_b_percentage |-> snapshot.participant_b_percentage,
             quiet_speaker |-> get_quiet_speaker(tr, t),
             dominant_speaker |-> get_dominant_speaker(tr, t)]

\* _run_session_timer: the arguments of its evaluate call, given the trigger
\* returned by check_intervention_trigger
EvaluateArgs(st, tr, trigger, t) ==
    [balance_status |-> IF trigger = "balance" THEN "mild_imbalance"
                        ELSE IF trigger = "severe_balance" THEN "severe_imbalance"
                        ELSE "balanced",
     balance_result |-> BalanceResultOf(tr, t),
     silence_duration |-> IF ~st.is_speaking /\ st.last_speech_at # None
                          THEN t - st.last_speech_at ELSE None,
     tension_score |-> 0,
     is_on_goal |-> TRUE]

\* the events of one iteration with the balance_update broadcast first
TickEvents_balance_first(st, tm, balance_result, iv, t) ==
    (IF balance_result.present
     THEN << [type |-> "balance_update", status |-> balance_result.status] >>
     ELSE <<>>)
    \o << [type |-> "time_remaining", totalSecondsRemaining |-> Remaining(st, tm, t),
           percentComplete |-> PercentComplete(st, tm, t)] >>
    \o (IF iv # NoIntervention
        THEN << [type |-> "intervention", intervention |-> KindOf(iv)] >>
        ELSE <<>>)

\* _run_session_timer: the events one iteration broadcasts, in order
TickEvents(st, tm, balance_result, iv, t) ==
    << [type |-> "time_remaining", totalSecondsRemaining |-> Remaining(st, tm, t),
        percentComplete |-> PercentComplete(st, tm, t)] >>
    \o (IF balance_result.present
        THEN << [type |-> "balance_update", status |-> balance_result.status] >>
        ELSE <<>>)
    \o (IF iv # NoIntervention
        THEN << [type |-> "intervention", intervention |-> KindOf(iv)] >>
        ELSE <<>>)

\* start_intervention_engine, start_balance_tracker and start_session_timer
\* have run at instant 0
Init ==
    /\ now = 0
    /\ \E d \in SchedDurations, c \in Configs :
           /\ engine = NewEngine(0, d, c.interrupt_authority, c.silence_detection)
           /\ store = NewStore(0, d)
    /\ ret = Ret("init", NoIntervention, NoneDue)
    /\ ghost = NoGhost
    /\ timer = NewTimer(0)
    /\ tracker = NewTracker(0)

\* an iteration that does not look at paused_at
Tick_ignores_pause ==
    /\ store.task = "tick"
    /\ \E c \in {check_intervention_trigger(tracker, now)} :
       \E in \in {EvaluateArgs(store, tracker, c.trigger, now)} :
       \E r \in {evaluate(engine, in, now)} :
          /\ engine' = r.e
          /\ tracker' = IF r.iv.type = "balance"
                        THEN reset_intervention_timers(c.tr) ELSE c.tr
          /\ \E b \in {Broadcasts(store, TickEvents(store, timer, in.balance_result, r.iv, now))} :
                store' = [store EXCEPT
                    !.sent = TickEvents(store, timer, in.balance_result, r.iv, now),
                    !.attempts = b.attempts,
                    !.task = IF b.raised THEN "failed"
                             ELSE IF Remaining(store, timer, now) <= 0
                             THEN "done" ELSE "sleep"]
          /\ ret' = Ret("tick", r.iv, DueFlags(engine, in, now))
    /\ UNCHANGED <<now, ghost, timer>>

\* one iteration of the loop of _run_session_timer, up to its sleep
Tick ==
    /\ store.task = "tick"
    /\ IF timer.paused_at # None
       THEN /\ store' = [store EXCEPT !.task = "sleep", !.sent = <<>>, !.attempts = <<>>]
            /\ ret' = Ret("tick", NoIntervention, NoneDue)
            /\ UNCHANGED <<engine, tracker>>
       ELSE \E c \in {check_intervention_trigger(tracker, now)} :
            \E in \in {EvaluateArgs(store, tracker, c.trigger, now)} :
            \E r \in {evaluate(engine, in, now)} :
               /\ engine' = r.e
               /\ tracker' = IF r.iv.type = "balance"
                             THEN reset_intervention_timers(c.tr) ELSE c.tr
               /\ \E b \in {Broadcasts(store, TickEvents(store, timer, in.balance_result, r.iv, now))} :
                     store' = [store EXCEPT
                         !.sent = TickEvents(store, timer, in.balance_result, r.iv, now),
                         !.attempts = b.attempts,
                         !.task = IF b.raised THEN "failed"
                                  ELSE IF Remaining(store, timer, now) <= 0
                                  THEN "done" ELSE "sleep"]
               /\ ret' = Ret("tick", r.iv, DueFlags(engine, in, now))
    /\ UNCHANGED <<now, ghost, timer>>

\* await asyncio.sleep(1)
Sleep ==
    /\ store.task = "sleep"
    /\ LET d == IF timer.paused_at # None THEN PausedStep ELSE 1
       IN /\ now + d <= MaxSchedNow
          /\ now' = now + d
    /\ store' = [store EXCEPT !.task = "tick"]
    /\ UNCHANGED <<engine, ret, ghost, timer, tracker>>

PauseSessionTimer ==
    /\ store.task # "done"
    /\ now <= MaxPauseNow
    /\ LET r == pause_session_timer(store, timer, engine, now)
       IN timer' = r.tm /\ engine' = r.e
    /\ ret' = Ret("other", NoIntervention, NoneDue)
    /\ UNCHANGED <<now, ghost, tracker, store>>

ResumeSessionTimer ==
    /\ store.task # "done"
    /\ LET r == resume_session_timer(store, timer, engine, now)
       IN timer' = r.tm /\ engine' = r.e
    /\ ret' = Ret("other", NoIntervention, NoneDue)
    /\ ghost' = [ghost EXCEPT !.resumed_at = IF timer.paused_at # None THEN now ELSE @]
    /\ UNCHANGED <<now, tracker, store>>

RecordSpeakerActivity ==
    /\ store.task # "done"
    /\ now <= MaxSpeechNow
    /\ \E label \in HeardLabels, is_speaking \in BOOLEAN :
           LET r == record_speaker_activity(store, tracker, label, is_speaking, now)
           IN store' = r.st /\ tracker' = r.tr
    /\ UNCHANGED <<now, engine, ret, ghost, timer>>

RecordSpeakerDurations ==
    /\ store.task # "done"
    /\ now <= MaxSpeechNow
    /\ \E durations_ms \in DurationMaps :
           LET r == record_speaker_durations(store, tracker, durations_ms, now)
           IN /\ RecordedTotal(r.tr) <= MaxTotalMs
              /\ store' = r.st /\ tracker' = r.tr
    /\ UNCHANGED <<now, engine, ret, ghost, timer>>

Next ==
    \/ Tick
    \/ Sleep
    \/ PauseSessionTimer
    \/ ResumeSessionTimer
    \/ RecordSpeakerActivity
    \/ RecordSpeakerDurations

Spec == Init /\ [][Next]_vars

(***************************************************************************)
(* C2: in a running session, under any sequence of ticks, pauses and       *)
(* resumes, the scheduler produces no intervention of a type other than    *)
(* icebreaker while the session timer reports fewer than 180 seconds       *)
(* elapsed (the timer does not advance while paused).                      *)
(***************************************************************************)
C2_QuietPeriod ==
    (/\ ret.op = "tick"
     /\ ret.iv # NoIntervention
     /\ ret.iv.type # "icebreaker"
     /\ ret.iv.created_at = now)
        => elapsed_seconds(timer, now) >= FIRST_MINUTES_QUIET

\* a step of the scheduler task that runs one iteration of its loop
Iteration == store.task = "tick" /\ store'.task # "tick"

RunDurations == {0 - 1, 0, 1, 6}

\* asyncio.sleep(1) returns after 1 second, or up to MaxLate seconds when the
\* event loop is busy
MaxLate == 2

InitRun ==
    /\ now = 0
    /\ \E d \in RunDurations, c \in Configs :
           /\ engine = NewEngine(0, d, c.interrupt_authority, c.silence_detection)
           /\ store = NewStore(0, d)
    /\ ret = Ret("init", NoIntervention, NoneDue)
    /\ ghost = NoGhost
    /\ timer = NewTimer(0)
    /\ tracker = NewTracker(0)

\* await asyncio.sleep(1)
SleepLate ==
    /\ store.task = "sleep"
    /\ \E d \in 1..MaxLate : now' = now + d
    /\ store' = [store EXCEPT !.task = "tick"]
    /\ UNCHANGED <<engine, ret, ghost, timer, tracker>>

NextRun == Tick \/ SleepLate

\* the event loop runs the task whenever it is ready and every sleep ends
SpecRun == InitRun /\ [][NextRun]_vars /\ WF_vars(NextRun)

TimeRemainingEvents == {i \in 1..Len(store.sent) : store.sent[i].type = "time_remaining"}

(***************************************************************************)
(* C13: a scheduler that is never paused eventually terminates; every      *)
(* iteration emits exactly one time_remaining event, with                  *)
(* totalSecondsRemaining >= 0 and percentComplete <= 100; the task stops   *)
(* after the iteration whose time_remaining event reports 0 and after no   *)
(* other, which is the first iteration when the duration is not positive.  *)
(***************************************************************************)
C13_Terminates ==
    /\ <>(store.task = "done")
    /\ [](store.task \in {"sleep", "done"} =>
            /\ TimeRemainingEvents = {1}
            /\ store.sent[1].totalSecondsRemaining >= 0
            /\ store.sent[1].percentComplete <= 100
            /\ store.sent[1].percentComplete >= 0
            /\ (store.task = "done") = (store.sent[1].totalSecondsRemaining = 0))
    /\ [](store.duration_minutes <= 0 /\ store.task # "tick" =>
            store.task = "done" /\ now = 0)

\* a one-minute session ended in an iteration that ran late, 61 seconds or
\* more after the start
C13_Witness ==
    /\ store.task = "done"
    /\ store.duration_minutes = 1
    /\ now > 60
    /\ store.sent[1].totalSecondsRemaining = 0
    /\ store.sent[1].percentComplete = 100

\* the time warnings in the history of the engine sent for a threshold
WarningsFor(threshold) ==
    {i \in 1..Len(h) : /\ h[i].type = "time_warning"
                       /\ \E k \in 1..Len(TimeWarnings) :
                             /\ TimeWarnings[k][1] = threshold
                             /\ h[i].message = TimeWarnings[k][2]}

(***************************************************************************)
(* C15: when the scheduler of a session of at least 6 minutes, with no     *)
(* blockers, has run to its natural termination, each of the time-warning  *)
(* thresholds of 300, 120 and 60 seconds remaining has fired exactly once. *)
(***************************************************************************)
C15_EachWarningOnce ==
    (store.task = "done" /\ store.duration_minutes >= 6) =>
        \A th \in {TIME_WARNING_5_MIN, TIME_WARNING_2_MIN, TIME_WARNING_1_MIN} :
            Cardinality(WarningsFor(th)) = 1

\* the place of an event type in the order of the claim
EventRank(type) ==
    IF type = "time_remaining" THEN 1 ELSE IF type = "balance_update" THEN 2 ELSE 3

(***************************************************************************)
(* C14: among the events one iteration of the scheduler emits, the         *)
(* time_remaining event comes before the balance_update event (if any),    *)
(* which comes before the intervention event (if any), and none of them is *)
(* emitted twice.                                                          *)
(***************************************************************************)
C14_EventOrder ==
    \A i, j \in 1..Len(store.sent) :
        i < j => EventRank(store.sent[i].type) < EventRank(store.sent[j].type)

\* an iteration emitted all three events
C14_Witness ==
    /\ Len(store.sent) = 3
    /\ store.sent[2].type = "balance_update"
    /\ store.sent[3].type = "intervention"

(***************************************************************************)
(* The scheduler of a long session under pauses and resumes, with nobody   *)
(* heard since the start                                                   *)
(***************************************************************************)
LongDurations == {30}

InitLong ==
    /\ now = 0
    /\ \E d \in LongDurations, c \in Configs :
           /\ engine = NewEngine(0, d, c.interrupt_authority, c.silence_detection)
           /\ store = NewStore(0, d)
    /\ ret = Ret("init", NoIntervention, NoneDue)
    /\ ghost = NoGhost
    /\ timer = NewTimer(0)
    /\ tracker = NewTracker(0)

NextLong ==
    \/ Tick
    \/ Sleep
    \/ PauseSessionTimer
    \/ ResumeSessionTimer

SpecLong == InitLong /\ [][NextLong]_vars

\* the duration for which the condition of a type has to be sustained
SustainedFor(type) ==
    IF type = "escalation" THEN TENSION_DURATION
    ELSE IF type = "goal_drift" THEN GOAL_DRIFT_THRESHOLD
    ELSE SILENCE_THRESHOLD

(***************************************************************************)
(* C16: after a pause has been ended by resume_session_timer, the          *)
(* scheduler emits an escalation, goal-drift or silence intervention only  *)
(* when the condition can have been observed for its full threshold since  *)
(* the resume: not earlier than 30, 120 and 15 seconds after it.           *)
(***************************************************************************)
C16_NoStaleDuration ==
    (/\ ret.op = "tick"
     /\ ret.iv.type \in {"escalation", "goal_drift", "silence"}
     /\ ret.iv.created_at = now
     /\ ghost.resumed_at # None)
        => now - ghost.resumed_at >= SustainedFor(ret.iv.type)

(***************************************************************************)
(* The speaker label map of a running session under any sequence of        *)
(* record_speaker_activity and record_speaker_durations calls              *)
(***************************************************************************)
\* the calls are made at whole seconds up to MaxLabelNow
MaxLabelNow == 1

\* durations_ms of the record_speaker_durations calls
LabelDurationMaps ==
    { << <<"S0", 500>> >>, << <<"S2", 500>>, <<"S1", 500>> >>, << <<"S1", 0>>, <<"S2", 500>> >> }

InitLabels ==
    /\ now = 0
    /\ engine = NewEngine(0, 30, TRUE, FALSE)
    /\ store = NewStore(0, 30)
    /\ ret = Ret("init", NoIntervention, NoneDue)
    /\ ghost = NoGhost
    /\ timer = NewTimer(0)
    /\ tracker = NewTracker(0)

LabAdvance ==
    /\ now + 1 <= MaxLabelNow
    /\ now' = now + 1
    /\ UNCHANGED <<engine, ret, ghost, timer, tracker, store>>

LabRecordSpeakerActivity ==
    /\ \E label \in Labels, is_speaking \in BOOLEAN :
           LET r == record_speaker_activity(store, tracker, label, is_speaking, now)
           IN store' = r.st /\ tracker' = r.tr
    /\ UNCHANGED <<now, engine, ret, ghost, timer>>

LabRecordSpeakerDurations ==
    /\ \E durations_ms \in LabelDurationMaps :
           LET r == record_speaker_durations(store, tracker, durations_ms, now)
           IN /\ RecordedTotal(r.tr) <= MaxTotalMs
              /\ store' = r.st /\ tracker' = r.tr
    /\ UNCHANGED <<now, engine, ret, ghost, timer>>

NextLabels == LabAdvance \/ LabRecordSpeakerActivity \/ LabRecordSpeakerDurations

SpecLabels == InitLabels /\ [][NextLabels]_vars

Mapped(st) == {l \in Labels : st.speaker_map[l] # NoParticipant}

(***************************************************************************)
(* C17: once a label is mapped to a participant id, it maps to the same id *)
(* after every further record_speaker_activity or record_speaker_durations *)
(* call: entries of the speaker map are added, never changed or removed.   *)
(***************************************************************************)
C17_MapIsStable ==
    [][\A l \in Mapped(store) : store'.speaker_map[l] = store.speaker_map[l]]_vars

\* both participants have their label, and calls for these labels went on:
\* both are in the tracker and one of them is in a turn begun later
C17_Witness ==
    /\ store.speaker_map["S0"] = "p1"
    /\ store.speaker_map["S1"] = "p2"
    /\ Len(tracker.speakers) = 2
    /\ \E i \in 1..2 : tracker.speakers[i].is_speaking /\ tracker.speakers[i].last_spoke_at = 1

\* the participants that have a label
Labelled(st) == {st.speaker_map[l] : l \in Mapped(st)}

\* the participant a label seen for the first time is to get
FirstUnlabelled(st) ==
    LET free == {i \in 1..Len(Participants) : Participants[i] \notin Labelled(st)}
    IN IF free # {} THEN Participants[Min(free)] ELSE Participants[1]

(***************************************************************************)
(* C18: a label seen for the first time is mapped to the first             *)
(* participant, in list order, that has no label yet, and to the first     *)
(* participant of the session when every participant has a label; so the   *)
(* labels are mapped to distinct participants as long as an unlabelled     *)
(* participant remains.                                                    *)
(***************************************************************************)
C18_FirstFree ==
    /\ [][\A l \in Labels :
            (Mapped(store') = Mapped(store) \cup {l} /\ l \notin Mapped(store))
                => store'.speaker_map[l] = FirstUnlabelled(store)]_vars
    /\ [](Cardinality(Mapped(store)) <= Len(Participants)
            => Cardinality(Labelled(store)) = Cardinality(Mapped(store)))
    /\ [](Cardinality(Mapped(store)) > Len(Participants)
            => \E l \in Labels :
                  /\ store.speaker_map[l] = Participants[1]
                  /\ Cardinality(Labelled([store EXCEPT !.speaker_map[l] = NoParticipant]))
                        = Len(Participants))

\* a third label arrived when both participants had one: two labels stand
\* for the first participant
C18_Witness ==
    /\ Mapped(store) = Labels
    /\ Cardinality({l \in Labels : store.speaker_map[l] = Participants[1]}) = 2
    /\ Cardinality({l \in Labels : store.speaker_map[l] = Participants[2]}) = 1

(***************************************************************************)
(* The session runtime with delete_session                                 *)
(***************************************************************************)
DeleteSession ==
    /\ \E r \in {delete_session(store)} :
          /\ store' = r.st
          /\ ret' = Ret(IF r.result THEN "delete_session: True" ELSE "delete_session: False",
                        NoIntervention, NoneDue)
    /\ UNCHANGED <<now, engine, ghost, timer, tracker>>

NextLifecycle ==
    \/ Tick
    \/ Sleep
    \/ PauseSessionTimer
    \/ ResumeSessionTimer
    \/ DeleteSession

SpecLifecycle == Init /\ [][NextLifecycle]_vars

(***************************************************************************)
(* C19: once delete_session has returned True for the session, its         *)
(* scheduler task no longer runs and none of SESSION_TIMER_STATE,          *)
(* SESSION_TIMER_TASKS, SESSION_BALANCE_TRACKERS,                          *)
(* SESSION_INTERVENTION_ENGINES, SESSION_SPEAKER_MAPS,                     *)
(* SESSION_LAST_SPEECH_AT and SESSION_IS_SPEAKING holds an entry for it.   *)
(***************************************************************************)
C19_DeleteLeavesNothing ==
    "SESSION_STORE" \notin store.entries =>
        /\ store.task \in {"cancelled", "done"}
        /\ store.entries \cap (Registries \ {"SESSION_STORE"}) = {}

(***************************************************************************)
(* The scheduler of a session with listeners on its event channel          *)
(***************************************************************************)
RegisterEventConnection ==
    /\ store.task \in {"tick", "sleep"}
    /\ \E ws \in Sockets :
          /\ \A i \in 1..Len(store.connections) : store.connections[i] # ws
          /\ store' = register_event_connection(store, ws)
    /\ UNCHANGED <<now, engine, ret, ghost, timer, tracker>>

\* the websocket handler's disconnect: a new connection is a new websocket
UnregisterEventConnection ==
    /\ store.task \in {"tick", "sleep"}
    /\ \E ws \in Sockets :
          /\ \E i \in 1..Len(store.connections) : store.connections[i] = ws
          /\ store' = [unregister_event_connection(store, ws) EXCEPT !.closed = @ \ {ws}]
    /\ UNCHANGED <<now, engine, ret, ghost, timer, tracker>>

\* the peer of a registered websocket goes away: send_json raises from now on
CloseSocket ==
    /\ store.task \in {"tick", "sleep"}
    /\ \E ws \in Sockets \ store.closed :
          /\ \E i \in 1..Len(store.connections) : store.connections[i] = ws
          /\ store' = [store EXCEPT !.closed = @ \cup {ws}]
    /\ UNCHANGED <<now, engine, ret, ghost, timer, tracker>>

NextBroadcast ==
    \/ Tick
    \/ Sleep
    \/ RegisterEventConnection
    \/ UnregisterEventConnection
    \/ CloseSocket

SpecBroadcast == Init /\ [][NextBroadcast]_vars

ImbalanceDurations == {10}

\* After the start hooks, the diarization reports at t=0 that S0 speaks; the
\* second participant is either never reported (b_known = FALSE) or
\* reported once, as not speaking.
InitImbalance ==
    /\ now = 0
    /\ \E d \in ImbalanceDurations, c \in Configs, b_known \in BOOLEAN :
          LET a == record_speaker_activity(NewStore(0, d), NewTracker(0), "S0", TRUE, 0)
              b == IF b_known
                   THEN record_speaker_activity(a.st, a.tr, "S1", FALSE, 0)
                   ELSE a
          IN /\ engine = NewEngine(0, d, c.interrupt_authority, c.silence_detection)
             /\ store = b.st
             /\ tracker = b.tr
    /\ ret = Ret("init", NoIntervention, NoneDue)
    /\ ghost = NoGhost
    /\ timer = NewTimer(0)

\* await asyncio.sleep(1), ending on time
SleepSecond ==
    /\ store.task = "sleep"
    /\ now' = now + 1
    /\ store' = [store EXCEPT !.task = "tick"]
    /\ UNCHANGED <<engine, ret, ghost, timer, tracker>>

NextImbalance == Tick \/ SleepSecond

\* the event loop runs the task whenever it is ready and every sleep ends
SpecImbalance == InitImbalance /\ [][NextImbalance]_vars /\ WF_vars(NextImbalance)

\* the first participant is in a turn begun at t=0 and the second one has
\* never been reported by the diarization
OnlyFirstHeard ==
    /\ Len(tracker.speakers) = 1
    /\ tracker.speakers[1].id = Participants[1]
    /\ tracker.speakers[1].is_speaking
    /\ tracker.speakers[1].last_spoke_at = 0

(***************************************************************************)
(* C21: with the first participant speaking since t=0 and the second never *)
(* heard, at t=185 get_balance reports severe_imbalance and                *)
(* check_intervention_trigger returns None.                                *)
(***************************************************************************)
C21_SevereWithoutTrigger ==
    (now = 185 /\ store.task = "tick" /\ OnlyFirstHeard) =>
        /\ ~get_balance(tracker, now).waiting_for_speakers
        /\ get_balance(tracker, now).status = "severe_imbalance"
        /\ check_intervention_trigger(tracker, now).trigger = "none"

\* the second participant is known to the tracker and has no speaking time
SecondKnownSilent ==
    /\ Len(tracker.speakers) = 2
    /\ tracker.speakers[2].total_speaking_time_ms = 0
    /\ ~tracker.speakers[2].is_speaking

VoiceBalanceSent ==
    \E i \in 1..Len(engine.intervention_history) :
        /\ engine.intervention_history[i].type = "balance"
        /\ engine.intervention_history[i].modality = "voice"

(***************************************************************************)
(* C22: under a severe imbalance that holds from the start of the session, *)
(* with no blocker and no pause, the scheduler eventually emits the        *)
(* voice-modality balance intervention (after the visual one).             *)
(***************************************************************************)
C22_VoiceBalanceEventually ==
    SecondKnownSilent => <>VoiceBalanceSent

C28_TwoMinutesApart ==
    \A i, j \in 1..Len(h) :
        i < j => h[j].created_at - h[i].created_at >= COOLDOWN_PERIOD

(***************************************************************************)
(* SessionService: the status transitions of a session                     *)
(***************************************************************************)
\* the session ids and invite tokens of the calls
SessionIds == {SessionId, "unknown"}
Tokens == {InviteToken, "other"}
InviteeNames == {"Bo", "Cy"}

\* session_store.get_session: whether it returns a session
get_session(st, session_id) ==
    session_id = st.session.id /\ "SESSION_STORE" \in st.entries

\* the call raised nothing and left the store as st
Returned(st) == [st |-> st, raised |-> "none"]

\* the call raised exc before it changed anything
Raised(st, exc) == [st |-> st, raised |-> exc]

\* record_consent that does not compare the invite token
record_consent_any_token(st, session_id, invite_token, invitee_name, consented) ==
    IF ~get_session(st, session_id) THEN Raised(st, "ValueError")
    ELSE IF consented
    THEN Returned([st EXCEPT
             !.session.participants =
                 Append(@, Participant(Len(@) + 1, invitee_name, "invitee")),
             !.session.status = "ready"])
    ELSE Returned([st EXCEPT !.session.status = "archived"])

\* record_consent that adds the invitee whatever the answer
record_consent_adds_always(st, session_id, invite_token, invitee_name, consented) ==
    IF ~get_session(st, session_id) THEN Raised(st, "ValueError")
    ELSE IF st.session.invite_token # invite_token THEN Raised(st, "ValueError")
    ELSE Returned([st EXCEPT
             !.session.participants =
                 Append(@, Participant(Len(@) + 1, invitee_name, "invitee")),
             !.session.status = IF consented THEN "ready" ELSE "archived"])

\* SessionService.record_consent
record_consent(st, session_id, invite_token, invitee_name, consented) ==
    IF ~get_session(st, session_id) THEN Raised(st, "ValueError")
    ELSE IF st.session.invite_token # invite_token THEN Raised(st, "ValueError")
    ELSE IF consented
    THEN LET ps == Append(st.session.participants,
                       Participant(Len(st.session.participants) + 1, invitee_name, "invitee"))
         IN Returned([st EXCEPT
                !.session.participants = ps,
                !.session.status =
                    IF \A i \in 1..Len(ps) : ps[i].consented THEN "ready" ELSE @])
    ELSE Returned([st EXCEPT !.session.status = "archived"])

\* SessionService.start_session; bot_created: create_meeting_bot returned an id
start_session(st, session_id, bot_created) ==
    IF ~get_session(st, session_id) THEN Raised(st, "ValueError")
    ELSE IF st.session.status # "ready" THEN Raised(st, "ValueError")
    ELSE IF ~bot_created THEN Raised(st, "RuntimeError")
    ELSE Returned([st EXCEPT !.session.status = "in_progress"])

\* SessionService.end_session
end_session(st, session_id) ==
    IF ~get_session(st, session_id) THEN Raised(st, "ValueError")
    ELSE IF st.session.status \notin {"in_progress", "paused"} THEN Raised(st, "ValueError")
    ELSE Returned([st EXCEPT !.session.status = "ended"])

\* pause_facilitation without the test of the status
pause_facilitation_unguarded(st, session_id) ==
    IF ~get_session(st, session_id) THEN Raised(st, "ValueError")
    ELSE Returned([st EXCEPT !.session.status = "paused"])

\* SessionService.pause_facilitation
pause_facilitation(st, session_id) ==
    IF ~get_session(st, session_id) THEN Raised(st, "ValueError")
    ELSE IF st.session.status # "in_progress" THEN Raised(st, "ValueError")
    ELSE Returned([st EXCEPT !.session.status = "paused"])

\* SessionService.resume_facilitation
resume_facilitation(st, session_id) ==
    IF ~get_session(st, session_id) THEN Raised(st, "ValueError")
    ELSE IF st.session.status # "paused" THEN Raised(st, "ValueError")
    ELSE Returned([st EXCEPT !.session.status = "in_progress"])

\* the result of a call of the service: the method, its arguments and what
\* it raised
Call(op, args, raised) ==
    [op |-> op, args |-> args, iv |-> NoIntervention, due |-> NoneDue, raised |-> raised]

\* no call has more participants to add than there are ids
MaxParticipants == 3

\* create_session has stored the session; nothing of its runtime is started
InitService ==
    /\ now = 0
    /\ engine = NewEngine(0, 30, TRUE, FALSE)
    /\ store = [NewStore(0, 30) EXCEPT !.session = NewSession,
                                       !.entries = {"SESSION_STORE"}]
    /\ ret = Ret("init", NoIntervention, NoneDue)
    /\ ghost = NoGhost
    /\ timer = NewTimer(0)
    /\ tracker = NewTracker(0)

RecordConsent ==
    /\ Len(store.session.participants) < MaxParticipants
    /\ \E sid \in SessionIds, tok \in Tokens, name \in InviteeNames, consented \in BOOLEAN :
       \E r \in {record_consent(store, sid, tok, name, consented)} :
          /\ store' = r.st
          /\ ret' = Call("record_consent",
                         [session_id |-> sid, invite_token |-> tok,
                          invitee_name |-> name, consented |-> consented], r.raised)
    /\ UNCHANGED <<now, engine, ghost, timer, tracker>>

StartSession ==
    /\ \E sid \in SessionIds, bot_created \in BOOLEAN :
       \E r \in {start_session(store, sid, bot_created)} :
          /\ store' = r.st
          /\ ret' = Call("start_session", [session_id |-> sid], r.raised)
    /\ UNCHANGED <<now, engine, ghost, timer, tracker>>

EndSession ==
    /\ \E sid \in SessionIds :
       \E r \in {end_session(store, sid)} :
          /\ store' = r.st
          /\ ret' = Call("end_session", [session_id |-> sid], r.raised)
    /\ UNCHANGED <<now, engine, ghost, timer, tracker>>

PauseFacilitation ==
    /\ \E sid \in SessionIds :
       \E r \in {pause_facilitation(store, sid)} :
          /\ store' = r.st
          /\ ret' = Call("pause_facilitation", [session_id |-> sid], r.raised)
    /\ UNCHANGED <<now, engine, ghost, timer, tracker>>

ResumeFacilitation ==
    /\ \E sid \in SessionIds :
       \E r \in {resume_facilitation(store, sid)} :
          /\ store' = r.st
          /\ ret' = Call("resume_facilitation", [session_id |-> sid], r.raised)
    /\ UNCHANGED <<now, engine, ghost, timer, tracker>>

NextService ==
    \/ RecordConsent
    \/ StartSession
    \/ EndSession
    \/ PauseFacilitation
    \/ ResumeFacilitation

SpecService == InitService /\ [][NextService]_vars

\* the step is a call of the method that returned normally
Succeeds(op) == ret'.op = op /\ ret'.raised = "none"

\* the step is a call of the method that raised ValueError and changed nothing
Rejects(op) == ret'.op = op /\ ret'.raised = "ValueError" /\ store' = store

\* the status from which a method of the service moves the session, and the
\* status it moves it to
Moves(op, from, to) ==
    /\ (ret'.op = op /\ store.session.status \in from /\ ret'.args.session_id = SessionId)
           => ret'.raised \in {"none", "RuntimeError"}
    /\ Succeeds(op) => store.session.status \in from /\ store'.session.status = to
    /\ (ret'.op = op /\ store.session.status \notin from) => Rejects(op)
    /\ (ret'.op = op /\ ret'.raised # "none") => store' = store

(***************************************************************************)
(* C24: start_session succeeds only from ready and leads to in_progress,   *)
(* pause_facilitation only from in_progress to paused,                     *)
(* resume_facilitation only from paused to in_progress, end_session only   *)
(* from in_progress or paused to ended; from any other status the call     *)
(* raises ValueError and the stored session is unchanged.                  *)
(***************************************************************************)
C24_GuardedTransitions ==
    [][/\ Moves("start_session", {"ready"}, "in_progress")
       /\ Moves("pause_facilitation", {"in_progress"}, "paused")
       /\ Moves("resume_facilitation", {"paused"}, "in_progress")
       /\ Moves("end_session", {"in_progress", "paused"}, "ended")]_vars

\* a session went through all four transitions, and a call on the ended
\* session was rejected
C24_Witness ==
    /\ store.session.status = "ended"
    /\ ret.op = "resume_facilitation"
    /\ ret.args.session_id = SessionId
    /\ ret.raised = "ValueError"

\* the step is a record_consent call with the session's id and token on the
\* session while it is pending_consent
ConsentOnPending ==
    /\ ret'.op = "record_consent"
    /\ ret'.args.session_id = SessionId
    /\ ret'.args.invite_token = InviteToken
    /\ store.session.status = "pending_consent"

(***************************************************************************)
(* C25: record_consent with the valid token on a pending_consent session   *)
(* adds the invitee as second participant and makes the session ready when *)
(* consented is true; it adds nobody and archives the session when         *)
(* consented is false.                                                     *)
(***************************************************************************)
C25_ConsentOutcome ==
    [][ConsentOnPending =>
          /\ ret'.raised = "none"
          /\ IF ret'.args.consented
             THEN /\ store'.session.status = "ready"
                  /\ Len(store'.session.participants) = 2
                  /\ SubSeq(store'.session.participants, 1, 1) = store.session.participants
                  /\ store'.session.participants[2].name = ret'.args.invitee_name
                  /\ store'.session.participants[2].role = "invitee"
                  /\ \A i \in 1..2 : store'.session.participants[i].consented
             ELSE /\ store'.session.status = "archived"
                  /\ store'.session.participants = store.session.participants]_vars

\* the invitee has just declined
C25_Witness ==
    /\ ret.op = "record_consent"
    /\ ret.raised = "none"
    /\ ~ret.args.consented
    /\ store.session.status = "archived"
    /\ Len(store.session.participants) = 1

(***************************************************************************)
(* C26: record_consent with a token other than the session's, or for an    *)
(* unknown session id, raises an error and leaves the status and the       *)
(* participants of the session unchanged.                                  *)
(***************************************************************************)
C26_BadTokenRejected ==
    [][(/\ ret'.op = "record_consent"
        /\ (ret'.args.session_id # SessionId \/ ret'.args.invite_token # InviteToken))
          => /\ ret'.raised = "ValueError"
             /\ store'.session = store.session]_vars

\* a consent with a wrong token has just been refused on the pending session
C26_Witness ==
    /\ ret.op = "record_consent"
    /\ ret.args.session_id = SessionId
    /\ ret.args.invite_token # InviteToken
    /\ ret.args.consented
    /\ ret.raised = "ValueError"
    /\ store.session.status = "pending_consent"
    /\ Len(store.session.participants) = 1

(***************************************************************************)
(* C27: record_consent on a session that is no longer pending_consent is   *)
(* rejected and changes neither the status nor the participants.           *)
(***************************************************************************)
C27_ConsentOnlyOnce ==
    [][(ret'.op = "record_consent" /\ store.session.status # "pending_consent")
          => /\ ret'.raised # "none"
             /\ store'.session = store.session]_vars

\* the larger of the two percentages of the balance
LargerShare == Max(Balance.participant_a_percentage, Balance.participant_b_percentage)

(***************************************************************************)
(* C29: get_balance classifies a split of 70/30 or worse as                *)
(* severe_imbalance and a split of 65/35 or better as balanced.            *)
(***************************************************************************)
C29_SplitClasses ==
    ~Balance.waiting_for_speakers =>
        /\ LargerShare >= 70 => Balance.status = "severe_imbalance"
        /\ LargerShare <= 65 => Balance.status = "balanced"

(***************************************************************************)
(* The tracker under any sequence of add_speaking_duration,                *)
(* check_intervention_trigger and reset_intervention_timers calls          *)
(***************************************************************************)
\* the calls are made every TriggerStep seconds up to MaxTriggerNow, and
\* durations are added while the recorded total stays within MaxTriggerMs
TriggerStep == 60
MaxTriggerNow == 420
MaxTriggerMs == 2000

\* durations (milliseconds) passed to add_speaking_duration
TriggerDurations == {300, 400, 700}

InitTrigger ==
    /\ now = 0
    /\ engine = NewEngine(0, 30, TRUE, FALSE)
    /\ ret = Ret("init", NoIntervention, NoneDue)
    /\ ghost = NoGhost
    /\ timer = NewTimer(0)
    /\ tracker = NewTracker(0)
    /\ store = NewStore(0, 30)

TrgAdvance ==
    /\ now + TriggerStep <= MaxTriggerNow
    /\ now' = now + TriggerStep
    /\ UNCHANGED <<engine, ret, ghost, timer, tracker, store>>

TrgAddDuration ==
    /\ \E id \in Pids, d \in TriggerDurations :
          /\ RecordedTotal(tracker) + d <= MaxTriggerMs
          /\ tracker' = add_speaking_duration(tracker, id, d)
    /\ UNCHANGED <<now, engine, ret, ghost, timer, store>>

\* the result of a check_intervention_trigger call: the status get_balance
\* gave it and the trigger it returned
Checked(balance, trigger) ==
    [op |-> "check_intervention_trigger", iv |-> NoIntervention, due |-> NoneDue,
     raised |-> "none", waiting |-> balance.waiting_for_speakers,
     status |-> balance.status, trigger |-> trigger]

TrgCheck ==
    /\ \E r \in {check_intervention_trigger(tracker, now)} :
       \E balance \in {get_balance(tracker, now)} :
          /\ tracker' = r.tr
          /\ ret' = Checked(balance, r.trigger)
          /\ ghost' = [ghost EXCEPT
                 !.severe_since =
                     IF ~balance.waiting_for_speakers /\ balance.status = "severe_imbalance"
                     THEN (IF @ = None THEN now ELSE @) ELSE None,
                 !.imbalance_since =
                     IF ~balance.waiting_for_speakers /\ balance.status # "balanced"
                     THEN (IF @ = None THEN now ELSE @) ELSE None]
    /\ UNCHANGED <<now, engine, timer, store>>

TrgReset ==
    /\ tracker' = reset_intervention_timers(tracker)
    /\ ret' = Ret("reset_intervention_timers", NoIntervention, NoneDue)
    /\ UNCHANGED <<now, engine, ghost, timer, store>>

NextTrigger == TrgAdvance \/ TrgAddDuration \/ TrgCheck \/ TrgReset

SpecTrigger == InitTrigger /\ [][NextTrigger]_vars

(***************************************************************************)
(* C30: check_intervention_trigger returns "severe_balance" only if        *)
(* get_balance was severe_imbalance at every call of an unbroken run that  *)
(* began at least 5 minutes ago, and "balance" only if it was mild or      *)
(* worse at every call of a run that began at least 3 minutes ago; a call  *)
(* at which the condition is false leaves the condition's start timestamp  *)
(* null.                                                                   *)
(***************************************************************************)
C30_SustainedTriggers ==
    ret.op = "check_intervention_trigger" =>
        /\ ret.trigger = "severe_balance" =>
              /\ ret.status = "severe_imbalance"
              /\ ghost.severe_since # None
              /\ now - ghost.severe_since >= SEVERE_IMBALANCE_DURATION
        /\ ret.trigger = "balance" =>
              /\ ret.status \in {"mild_imbalance", "severe_imbalance"}
              /\ ghost.imbalance_since # None
              /\ now - ghost.imbalance_since >= MILD_IMBALANCE_DURATION
        /\ (~ret.waiting /\ ret.status # "severe_imbalance") =>
              tracker.severe_imbalance_start = None
        /\ (~ret.waiting /\ ret.status = "balanced") =>
              tracker.imbalance_start = None

\* the severe trigger has just been returned, six minutes after the run of
\* severe calls began
C30_Witness ==
    /\ ret.op = "check_intervention_trigger"
    /\ ret.trigger = "severe_balance"
    /\ now - ghost.severe_since = 360

(***************************************************************************)
(* The engine under evaluate calls that differ in is_on_goal only          *)
(***************************************************************************)
\* the arguments of the evaluate calls: nothing but the goal flag varies
DriftInputs ==
    [balance_status : {"balanced"},
     balance_result : {NoBalanceResult},
     silence_duration : {None},
     tension_score : {0},
     is_on_goal : BOOLEAN]

DriftEvaluate ==
    /\ Len(engine.intervention_history) < MaxHistory
    /\ \E in \in DriftInputs :
           LET r == evaluate(engine, in, now)
           IN /\ engine' = r.e
              /\ ret' = Ret("evaluate", r.iv, DueFlags(engine, in, now))
              /\ ghost' = [ghost EXCEPT !.off_since =
                              IF ~in.is_on_goal
                              THEN (IF @ = None THEN now ELSE @)
                              ELSE None]
    /\ UNCHANGED <<now, timer, tracker, store>>

NextDrift ==
    \/ EngAdvance
    \/ DriftEvaluate
    \/ EngSetBlocker

SpecDrift == InitEngine /\ [][NextDrift]_vars

(***************************************************************************)
(* C31: evaluate returns a goal_drift intervention only if is_on_goal was  *)
(* false at every evaluate call over at least the preceding 2 minutes: an  *)
(* evaluate call with is_on_goal true ends the off-goal run, also when a   *)
(* higher-priority intervention fires in that call.                        *)
(***************************************************************************)
C31_GoalDriftSustained ==
    (ret.op = "evaluate" /\ ret.iv.type = "goal_drift") =>
        /\ ghost.off_since # None
        /\ ret.iv.created_at - ghost.off_since >= GOAL_DRIFT_THRESHOLD

(***************************************************************************)
(* C40: a threshold is appended to time_warnings_sent only by an evaluate  *)
(* call that returns the time_warning intervention of that threshold; a    *)
(* call in which a higher-priority intervention fires, or in which         *)
(* can_intervene refuses time warnings, leaves time_warnings_sent as it    *)
(* was.                                                                    *)
(***************************************************************************)
C40_MarkedOnlyWhenReturned ==
    [][engine'.time_warnings_sent # engine.time_warnings_sent =>
          /\ ret'.op = "evaluate"
          /\ ret'.iv.type = "time_warning"
          /\ \E k \in 1..Len(TimeWarnings) :
                /\ ret'.iv.message = TimeWarnings[k][2]
                /\ ~InSeq(TimeWarnings[k][1], engine.time_warnings_sent)
                /\ engine'.time_warnings_sent =
                       Append(engine.time_warnings_sent, TimeWarnings[k][1])]_vars

\* an evaluate call returned an escalation or a voice balance intervention
\* while a time warning was due as well, and no threshold has been recorded
C40_Witness ==
    /\ ret.op = "evaluate"
    /\ ret.iv.type \in {"escalation", "balance"}
    /\ ret.due[3]
    /\ engine.time_warnings_sent = <<>>

(***************************************************************************)
(* The scheduler of a six-minute session under pauses and resumes          *)
(***************************************************************************)
WarnDurations == {6}

InitWarn ==
    /\ now = 0
    /\ \E d \in WarnDurations, c \in Configs :
           /\ engine = NewEngine(0, d, c.interrupt_authority, c.silence_detection)
           /\ store = NewStore(0, d)
    /\ ret = Ret("init", NoIntervention, NoneDue)
    /\ ghost = NoGhost
    /\ timer = NewTimer(0)
    /\ tracker = NewTracker(0)

SpecWarn == InitWarn /\ [][NextLong]_vars

\* the threshold a time warning was sent for, by its template
ThresholdOf(message) ==
    LET k == CHOOSE k \in 1..Len(TimeWarnings) : TimeWarnings[k][2] = message
    IN TimeWarnings[k][1]

(***************************************************************************)
(* C32: when an iteration of the scheduler emits a time_warning for the    *)
(* threshold T (300, 120 or 60 seconds), the time_remaining event of the   *)
(* same iteration reports totalSecondsRemaining <= T, whatever pauses and  *)
(* resumes came before.                                                    *)
(***************************************************************************)
C32_WarningMatchesRemaining ==
    (ret.op = "tick" /\ ret.iv.type = "time_warning") =>
        /\ store.sent[1].type = "time_remaining"
        /\ store.sent[1].totalSecondsRemaining <= ThresholdOf(ret.iv.message)

\* metrics.is_speaking of a participant; one not yet recorded is not speaking
IsSpeaking(tr, id) ==
    HasSpeaker(tr, id) /\ tr.speakers[IndexOf(tr, id)].is_speaking

(***************************************************************************)
(* C33: update_speaker(p, false) for a participant p who is not speaking,  *)
(* whether recorded in the tracker or not, leaves the result of            *)
(* get_balance as it was.                                                  *)
(***************************************************************************)
C33_SameStateIsNoOp ==
    [][\A id \in Pids :
          (/\ ~IsSpeaking(tracker, id)
           /\ now' = now
           /\ tracker' = update_speaker(tracker, id, FALSE, now))
              => get_balance(tracker', now') = get_balance(tracker, now)]_vars

(***************************************************************************)
(* C34: under any sequence of update_speaker and add_speaking_duration     *)
(* calls, a participant's total_speaking_time_ms never decreases (a        *)
(* non-positive duration is ignored), no participant is removed, and       *)
(* is_speaking implies that last_spoke_at is set.                          *)
(***************************************************************************)
C34_TotalsGrow ==
    /\ [](\A i \in 1..Len(tracker.speakers) :
             tracker.speakers[i].is_speaking => tracker.speakers[i].last_spoke_at # None)
    /\ [][\A i \in 1..Len(tracker.speakers) :
             /\ i <= Len(tracker'.speakers)
             /\ tracker'.speakers[i].id = tracker.speakers[i].id
             /\ tracker'.speakers[i].total_speaking_time_ms
                    >= tracker.speakers[i].total_speaking_time_ms]_vars

\* a participant who has completed a turn of one second is in a new turn,
\* and another one has been credited a reported duration
C34_Witness ==
    \E i, j \in 1..Len(tracker.speakers) :
        /\ i # j
        /\ tracker.speakers[i].is_speaking
        /\ tracker.speakers[i].total_speaking_time_ms = 1000
        /\ tracker.speakers[i].last_spoke_at = 1
        /\ tracker.speakers[j].total_speaking_time_ms = 290

(***************************************************************************)
(* The scheduler of a session in which the first participant speaks from   *)
(* t=0 and the diarization reports the end and the start of turns later on *)
(***************************************************************************)
\* the diarization reports turns between SpeechFrom and SpeechTo seconds
SpeechFrom == 185
SpeechTo == 188

\* the label whose turns are reported
TurnLabels == {"S0"}

TurnRecordSpeakerActivity ==
    /\ store.task \in {"tick", "sleep"}
    /\ SpeechFrom <= now /\ now <= SpeechTo
    /\ \E label \in TurnLabels, is_speaking \in BOOLEAN :
           LET r == record_speaker_activity(store, tracker, label, is_speaking, now)
           IN /\ store' = r.st
              /\ tracker' = r.tr
              /\ ghost' = [ghost EXCEPT !.turn_ended_at =
                              IF ~is_speaking /\ IsSpeaking(tracker, _resolve_speaker_id(store, label).id)
                              THEN now ELSE @]
    /\ UNCHANGED <<now, engine, ret, timer>>

NextTurns ==
    \/ Tick
    \/ SleepSecond
    \/ TurnRecordSpeakerActivity

SpecTurns == InitImbalance /\ [][NextTurns]_vars

(***************************************************************************)
(* C35: the scheduler emits a silence intervention only in an iteration    *)
(* before which nobody has been speaking for 15 seconds: nobody is in a    *)
(* turn, and no turn has ended within the preceding 15 seconds.            *)
(***************************************************************************)
C35_SilenceAfterQuiet ==
    (ret.op = "tick" /\ ret.iv.type = "silence" /\ ret.iv.created_at = now) =>
        /\ \A i \in 1..Len(tracker.speakers) : ~tracker.speakers[i].is_speaking
        /\ ghost.turn_ended_at # None =>
               now - ghost.turn_ended_at >= SILENCE_THRESHOLD

(***************************************************************************)
(* C36: when the scheduler of a session of at least 6 minutes, never       *)
(* paused, without blockers and with no intervention of another type, has  *)
(* run to its end, the 1-minute time warning has been emitted in an        *)
(* iteration whose remaining time was at most 60 seconds and more than 0.  *)
(***************************************************************************)
C36_LastWarningInTime ==
    (/\ store.task = "done"
     /\ store.duration_minutes >= 6
     /\ \A i \in 1..Len(h) : h[i].type = "time_warning")
        => \E i \in 1..Len(h) :
              /\ h[i].message = "TIME_1_MIN"
              /\ h[i].metadata.time_remaining_seconds > 0
              /\ h[i].metadata.time_remaining_seconds <= TIME_WARNING_1_MIN

(***************************************************************************)
(* The scheduler of a session with a lasting imbalance under pauses and    *)
(* resumes                                                                 *)
(***************************************************************************)
SpecPaused == InitImbalance /\ [][NextLong]_vars

(***************************************************************************)
(* C37: time spent paused does not count toward the sustained-imbalance    *)
(* durations: the scheduler emits a balance intervention only when the     *)
(* session has run unpaused for the 3 minutes the imbalance has to last,   *)
(* so never in the first iteration after a resume on account of the time   *)
(* that passed during the pause.                                           *)
(***************************************************************************)
C37_PauseDoesNotCount ==
    (ret.op = "tick" /\ ret.iv.type = "balance" /\ ret.iv.created_at = now) =>
        elapsed_seconds(timer, now) >= MILD_IMBALANCE_DURATION

(***************************************************************************)
(* The scheduler followed from one suspension point to the next: the tasks *)
(* created by start_session_timer, each suspended in a ws.send_json or in  *)
(* asyncio.sleep(1), the restart of the timer and the listeners that       *)
(* register and unregister in between.  The state of a task:               *)
(*   pc: "new" (created, not yet run), "send" (in await ws.send_json),     *)
(*       "sleep" (in await asyncio.sleep(1)), "done" (returned),           *)
(*       "cancelled" (ended by CancelledError)                             *)
(*   must_cancel: Task.cancel() has been called and the CancelledError is  *)
(*       still to be thrown into the coroutine                             *)
(*   phase: the broadcast of the iteration the task is in ("time_remaining",*)
(*       "balance_update", "intervention"), or "evaluate" / "end" for the  *)
(*       code that follows them                                            *)
(*   k: the position of the list iterator of `for ws in connections`       *)
(*   remaining, iv_type: the locals `remaining` and `intervention.type`    *)
(*   wake_at: the instant the sleep ends                                   *)
(* A send takes less than the second the clock is counted in.              *)
(***************************************************************************)
\* the tasks are followed from TaskStart to MaxTaskNow seconds, and at most
\* MaxTasks of them are created
TaskStart == 182
MaxTaskNow == 183
MaxTasks == 2

NewTask ==
    [pc |-> "new", must_cancel |-> FALSE, phase |-> "none", k |-> 0,
     remaining |-> 0, iv_type |-> "none", wake_at |-> 0]

\* the objects a step of a task reads and writes
World(st, e, tr, tm, gh) == [st |-> st, e |-> e, tr |-> tr, tm |-> tm, gh |-> gh]

\* broadcast_session_event: connections = get_event_connections(session_id),
\* which is the list held by SESSION_EVENTS itself, and the start of the loop
begin_broadcast(w, i, event_type) ==
    [w EXCEPT !.st.tasks[i].phase = event_type,
              !.st.tasks[i].k = 0,
              !.gh.broadcast = [task |-> i, type |-> event_type,
                                stayed |-> {w.st.connections[n] : n \in 1..Len(w.st.connections)},
                                got |-> <<>>]]

\* broadcast_session_event: `await ws.send_json(event)` for the next item of
\* the list iterator; the task is suspended in the call
send_json(w, i) ==
    LET ws == w.st.connections[w.st.tasks[i].k + 1]
    IN [w EXCEPT !.st.sends = Append(@, [task |-> i, ws |-> ws,
                                         type |-> w.st.tasks[i].phase]),
                 !.st.tasks[i].k = @ + 1,
                 !.st.tasks[i].pc = "send",
                 !.gh.broadcast.got = Append(@, ws)]

\* _run_session_timer: the code that follows the return of a broadcast, up
\* to the next one
after_broadcast(w, i, t) ==
    LET task == w.st.tasks[i]
        w1 == [w EXCEPT !.gh.finished = w.gh.broadcast]
    IN CASE task.phase = "time_remaining" ->
                IF BalanceResultOf(w.tr, t).present
                THEN begin_broadcast(w1, i, "balance_update")
                ELSE [w1 EXCEPT !.st.tasks[i].phase = "evaluate"]
         [] task.phase = "balance_update" ->
                [w1 EXCEPT !.st.tasks[i].phase = "evaluate"]
         [] OTHER ->
                [w1 EXCEPT !.st.tasks[i].phase = "end",
                           !.tr = IF task.iv_type = "balance"
                                  THEN reset_intervention_timers(@) ELSE @]

\* _run_session_timer: check_intervention_trigger and engine.evaluate
evaluate_phase(w, i, t) ==
    IF "SESSION_INTERVENTION_ENGINES" \notin w.st.entries
    THEN [w EXCEPT !.st.tasks[i].phase = "end"]
    ELSE LET c == check_intervention_trigger(w.tr, t)
             in == EvaluateArgs(w.st, w.tr, c.trigger, t)
             r == evaluate(w.e, in, t)
             w1 == [w EXCEPT !.e = r.e, !.tr = c.tr,
                             !.st.tasks[i].iv_type = r.iv.type]
         IN IF r.iv # NoIntervention
            THEN begin_broadcast(w1, i, "intervention")
            ELSE [w1 EXCEPT !.st.tasks[i].phase = "end"]

\* the coroutine of task i runs on until it is suspended or returns
RECURSIVE proceed(_, _, _)
proceed(w, i, t) ==
    LET task == w.st.tasks[i]
    IN CASE task.phase \in {"time_remaining", "balance_update", "intervention"} ->
                IF task.k < Len(w.st.connections)
                THEN send_json(w, i)
                ELSE proceed(after_broadcast(w, i, t), i, t)
         [] task.phase = "evaluate" -> proceed(evaluate_phase(w, i, t), i, t)
         [] OTHER ->
                IF task.remaining <= 0
                THEN [w EXCEPT !.st.tasks[i].pc = "done"]
                ELSE [w EXCEPT !.st.tasks[i].pc = "sleep",
                               !.st.tasks[i].wake_at = t + 1]

\* _run_session_timer: the head of the loop
loop_head(w, i, t) ==
    IF "SESSION_TIMER_STATE" \notin w.st.entries
    THEN [w EXCEPT !.st.tasks[i].pc = "done"]
    ELSE IF w.tm.paused_at # None
    THEN [w EXCEPT !.st.tasks[i].pc = "sleep", !.st.tasks[i].wake_at = t + 1]
    ELSE proceed(begin_broadcast(
             [w EXCEPT !.st.tasks[i].remaining = Remaining(w.st, w.tm, t),
                       !.st.tasks[i].iv_type = "none"],
             i, "time_remaining"), i, t)

\* a resumption in which the CancelledError thrown into ws.send_json is
\* caught by the except clause around it, as an Exception is
resume_task_swallows(w, i, t) ==
    LET task == w.st.tasks[i]
    IN IF task.must_cancel /\ task.pc # "send"
       THEN [w EXCEPT !.st.tasks[i].pc = "cancelled", !.st.tasks[i].must_cancel = FALSE]
       ELSE IF task.pc = "send"
       THEN proceed([w EXCEPT !.st.tasks[i].must_cancel = FALSE], i, t)
       ELSE loop_head(w, i, t)

\* the event loop resumes task i.  A task that was cancelled gets the
\* CancelledError at the await it is suspended in (or before its first
\* statement); CancelledError is a BaseException, which `except Exception`
\* around send_json does not catch, so it ends the task.
resume_task(w, i, t) ==
    LET task == w.st.tasks[i]
    IN IF task.must_cancel
       THEN [w EXCEPT !.st.tasks[i].pc = "cancelled", !.st.tasks[i].must_cancel = FALSE]
       ELSE IF task.pc = "send"
       THEN proceed(w, i, t)
       ELSE loop_head(w, i, t)

Finished(task) == task.pc \in {"done", "cancelled"}

\* _cancel_session_timer on the tasks: pop the entry and cancel the task
\* unless it is done
_cancel_session_timer_task(st) ==
    IF st.timer_task = 0 THEN st
    ELSE [st EXCEPT !.timer_task = 0,
                    !.tasks[st.timer_task].must_cancel =
                        IF Finished(st.tasks[st.timer_task]) THEN @ ELSE TRUE]

\* start_session_timer that leaves the previous task running
start_session_timer_keeps(w, t) ==
    [w EXCEPT !.st = [w.st EXCEPT !.tasks = Append(@, NewTask),
                                  !.timer_task = Len(w.st.tasks) + 1,
                                  !.entries = @ \cup {"SESSION_TIMER_STATE",
                                                      "SESSION_TIMER_TASKS"}],
              !.tm = NewTimer(t)]

\* start_session_timer
start_session_timer(w, t) ==
    LET st1 == _cancel_session_timer_task(w.st)
    IN [w EXCEPT !.st = [st1 EXCEPT !.tasks = Append(@, NewTask),
                                    !.timer_task = Len(st1.tasks) + 1,
                                    !.entries = @ \cup {"SESSION_TIMER_STATE",
                                                        "SESSION_TIMER_TASKS"}],
                 !.tm = NewTimer(t)]

\* The session of InitImbalance TaskStart seconds after its start: the
\* scheduler has made its iterations up to the one at TaskStart - 1, none of
\* which produced an intervention, and sleeps; with the second participant
\* known the tracker has seen the imbalance since its iteration at t=1.
InitTasks ==
    /\ now = TaskStart
    /\ \E d \in ImbalanceDurations, c \in Configs, b_known \in BOOLEAN :
          LET a == record_speaker_activity(NewStore(0, d), NewTracker(0), "S0", TRUE, 0)
              b == IF b_known
                   THEN record_speaker_activity(a.st, a.tr, "S1", FALSE, 0)
                   ELSE a
          IN /\ engine = NewEngine(0, d, c.interrupt_authority, c.silence_detection)
             /\ store = [b.st EXCEPT
                            !.task = "split",
                            !.tasks = << [NewTask EXCEPT
                                             !.pc = "sleep", !.phase = "end",
                                             !.remaining = d * 60 - (TaskStart - 1),
                                             !.wake_at = TaskStart] >>,
                            !.timer_task = 1]
             /\ tracker = IF b_known
                          THEN [b.tr EXCEPT !.imbalance_start = 1,
                                            !.severe_imbalance_start = 1]
                          ELSE b.tr
    /\ ret = Ret("init", NoIntervention, NoneDue)
    /\ ghost = NoGhost
    /\ timer = NewTimer(0)

Runnable(task) ==
    \/ task.pc \in {"new", "send"}
    \/ task.pc = "sleep" /\ (task.must_cancel \/ task.wake_at <= now)

\* the event loop resumes one of the tasks that can run
TaskResume ==
    /\ \E i \in 1..Len(store.tasks) :
          /\ Runnable(store.tasks[i])
          /\ \E w \in {resume_task(World(store, engine, tracker, timer, ghost), i, now)} :
                /\ store' = w.st
                /\ engine' = w.e
                /\ tracker' = w.tr
                /\ timer' = w.tm
                /\ ghost' = w.gh
    /\ UNCHANGED <<now, ret>>

\* a second passes once every task has run as far as it can
TaskClock ==
    /\ now < MaxTaskNow
    /\ \A i \in 1..Len(store.tasks) : ~Runnable(store.tasks[i])
    /\ now' = now + 1
    /\ store' = [store EXCEPT !.sends = <<>>]
    /\ UNCHANGED <<engine, ret, ghost, timer, tracker>>

TaskStartSessionTimer ==
    /\ Len(store.tasks) < MaxTasks
    /\ \E w \in {start_session_timer(World(store, engine, tracker, timer, ghost), now)} :
          /\ store' = w.st
          /\ timer' = w.tm
    /\ UNCHANGED <<now, engine, ret, ghost, tracker>>

\* a websocket connects to /events once
TaskRegisterEventConnection ==
    /\ \E ws \in Sockets \ store.closed :
          /\ \A n \in 1..Len(store.connections) : store.connections[n] # ws
          /\ store' = register_event_connection(store, ws)
    /\ UNCHANGED <<now, engine, ret, ghost, timer, tracker>>

\* the websocket handler's disconnect
TaskUnregisterEventConnection ==
    /\ \E ws \in Sockets :
          /\ \E n \in 1..Len(store.connections) : store.connections[n] = ws
          /\ store' = [unregister_event_connection(store, ws) EXCEPT !.closed = @ \cup {ws}]
          /\ ghost' = [ghost EXCEPT !.broadcast.stayed = @ \ {ws}]
    /\ UNCHANGED <<now, engine, ret, timer, tracker>>

NextTasks ==
    \/ TaskResume
    \/ TaskClock
    \/ TaskStartSessionTimer
    \/ TaskRegisterEventConnection
    \/ TaskUnregisterEventConnection

SpecTasks == InitTasks /\ [][NextTasks]_vars

\* task i can still run and has not been cancelled
Live(i) == ~Finished(store.tasks[i]) /\ ~store.tasks[i].must_cancel

(***************************************************************************)
(* C38: at most one scheduler task of the session is live at any time, and *)
(* it is the one held by SESSION_TIMER_TASKS; a task that                  *)
(* start_session_timer has cancelled makes no send_json call after it, at  *)
(* whichever suspension point (a send or the sleep) the restart found it.  *)
(***************************************************************************)
C38_OneLiveTask ==
    /\ [](\A i \in 1..Len(store.tasks) : Live(i) => i = store.timer_task)
    /\ [][\A n \in (Len(store.sends) + 1)..Len(store'.sends) :
             /\ store'.sends[n].task \in 1..Len(store.tasks)
             /\ ~store.tasks[store'.sends[n].task].must_cancel
             /\ store'.sends[n].task = store.timer_task]_vars

\* the first task was cancelled while it was suspended in a send, and the
\* task that replaced it has sent an event of its own
C38_Witness ==
    /\ Len(store.tasks) >= 2
    /\ store.tasks[1].pc = "cancelled"
    /\ store.tasks[1].k >= 1
    /\ store.tasks[1].phase = "time_remaining"
    /\ \E n, m \in 1..Len(store.sends) :
          /\ n < m
          /\ store.sends[n].task = 1
          /\ store.sends[m].task = 2

(***************************************************************************)
(* C39: every listener that stays registered from the beginning to the end *)
(* of a broadcast_session_event call has send_json called on it exactly    *)
(* once in that call, also when other listeners register or unregister     *)
(* while the call is suspended in a send.                                  *)
(***************************************************************************)
C39_EveryListenerOnce ==
    \A ws \in ghost.finished.stayed :
        Cardinality({n \in 1..Len(ghost.finished.got) : ghost.finished.got[n] = ws}) = 1

====
